---- MODULE Spec2Model ----
(***************************************************************************)
(* PageService.readPageFromTab: the page reader of the web-copilot         *)
(* extension.  The injected function clones document.body, strips noise    *)
(* elements from the clone, locates the main content element               *)
(* (findMainContent) and serializes it to Markdown (convertToMarkdown).    *)
(*                                                                         *)
(* A string is a sequence of one-character strings.  A document is a       *)
(* sequence of nodes in document (pre-)order; node 1 is the root and       *)
(* every node names its parent by index (0 for the root).                  *)
(***************************************************************************)
EXTENDS Integers, Sequences, FiniteSets, TLC

VARIABLES
    pc,        \* position of readPageFromTab / of the injected function
    trees,     \* the node store: "live" is the page's document.body subtree,
               \* "copy" is contentContainer, "temp" the last tempContainer,
               \* "head" is the page's document.head subtree
    removed,   \* handles of the trees removeChild has acted on
    tabs,      \* result of chrome.tabs.query
    tagIdx,    \* index into elementsToRemove (the forEach of the strip loop)
    mainContent, \* what findMainContent returned: [tree, idx]
    target,    \* targetElement: [tree, idx]
    thrown,    \* the injected function raised an exception
    result,    \* what the injected function returned: [content, markdown,
               \* metadata]
    results,   \* what chrome.scripting.executeScript resolved with
    outcome,   \* settlement of the promise readPageFromTab returned
    url,       \* window.location.href of the page
    calls,     \* the calls of convertToMarkdown still to be made (a stack)
    run,       \* number of the current readPageFromTab call
    prev,      \* what the injected function of each earlier call ended with
    storage,   \* chrome.storage.local: the sessions index and the session
               \* stored under each session key
    tasks,     \* the ChatHistoryService call each caller is in, with its
               \* position and its local variables
    now        \* Date.now(), as the next session id

\* the variables of readPageFromTab
pageVars == <<pc, trees, removed, tabs, tagIdx, mainContent, target, thrown,
              result, results, outcome, url, calls, run, prev>>

\* the variables of ChatHistoryService
sessionVars == <<storage, tasks, now>>

vars == <<pageVars, sessionVars>>

----------------------------------------------------------------------------
(* Strings *)

\* the characters JavaScript's \s and String.prototype.trim treat as white space
WhiteSpace == {" ", "\t", "\n", "\r", "\f"}

RECURSIVE FirstNonWs(_, _)
FirstNonWs(s, i) ==
    IF i > Len(s) THEN i
    ELSE IF s[i] \in WhiteSpace THEN FirstNonWs(s, i + 1) ELSE i

RECURSIVE LastNonWs(_, _)
LastNonWs(s, i) ==
    IF i < 1 THEN 0
    ELSE IF s[i] \in WhiteSpace THEN LastNonWs(s, i - 1) ELSE i

\* String.prototype.trim
Trim(s) ==
    LET a == FirstNonWs(s, 1)
    IN  IF a > Len(s) THEN <<>> ELSE SubSeq(s, a, LastNonWs(s, Len(s)))

\* sub occurs in s at position i
MatchAt(s, sub, i) ==
    /\ i + Len(sub) - 1 <= Len(s)
    /\ \A k \in 1..Len(sub) : s[i + k - 1] = sub[k]

\* String.prototype.includes, and the [attr*="v"] test
Includes(s, sub) ==
    \/ sub = <<>>
    \/ \E i \in 1..(Len(s) - Len(sub) + 1) : MatchAt(s, sub, i)

\* startsWith that accepts the prefix anywhere in the string
StartsWithAnywhere(s, sub) == \E i \in 1..Len(s) : MatchAt(s, sub, i)

\* String.prototype.startsWith
StartsWith(s, sub) == MatchAt(s, sub, 1)

UpperCase == <<"A","B","C","D","E","F","G","H","I","J","K","L","M",
               "N","O","P","Q","R","S","T","U","V","W","X","Y","Z">>
LowerCase == <<"a","b","c","d","e","f","g","h","i","j","k","l","m",
               "n","o","p","q","r","s","t","u","v","w","x","y","z">>

UpperCaseLetters == {UpperCase[k] : k \in 1..26}

\* String.prototype.toLowerCase, one character
LowerChar(c) ==
    IF c \in UpperCaseLetters
    THEN LowerCase[CHOOSE k \in 1..26 : UpperCase[k] = c]
    ELSE c

ToLowerCase(s) == [i \in 1..Len(s) |-> LowerChar(s[i])]

\* RegExp.prototype.test of /w1|w2|.../i : some alternative occurs in s,
\* letters compared without case.  words are given in lower case.
MatchesAnyWord(s, words) ==
    LET firsts == {w[1] : w \in words}
    IN  \E i \in 1..Len(s) :
            /\ LowerChar(s[i]) \in firsts
            /\ \E w \in words :
                  /\ i + Len(w) - 1 <= Len(s)
                  /\ \A k \in 1..Len(w) : LowerChar(s[i + k - 1]) = w[k]

RECURSIVE Flatten(_)
\* concatenation of a sequence of strings
Flatten(ss) == IF ss = <<>> THEN <<>> ELSE Head(ss) \o Flatten(Tail(ss))

RECURSIVE SplitAt(_, _, _)
\* String.prototype.split on the characters of seps; cur is the piece being read
SplitAt(s, seps, cur) ==
    IF s = <<>> THEN <<cur>>
    ELSE IF Head(s) \in seps THEN <<cur>> \o SplitAt(Tail(s), seps, <<>>)
    ELSE SplitAt(Tail(s), seps, Append(cur, Head(s)))

\* split("\n")
SplitLines(s) == SplitAt(s, {"\n"}, <<>>)

RECURSIVE JoinWith(_, _)
\* Array.prototype.join
JoinWith(ss, sep) ==
    IF ss = <<>> THEN <<>>
    ELSE IF Len(ss) = 1 THEN ss[1]
    ELSE ss[1] \o sep \o JoinWith(Tail(ss), sep)

\* the tokens of a class attribute (DOMTokenList, the .name selector)
ClassTokens(s) ==
    LET parts == SplitAt(s, WhiteSpace, <<>>)
    IN  {parts[i] : i \in 1..Len(parts)} \ {<<>>}

----------------------------------------------------------------------------
(* The DOM *)

\* an element node; attrs is a set of <<name, value>> pairs.  ns is "svg" for
\* an SVGElement, whose className is an SVGAnimatedString and not a string.
Elem(parent, ns, tag, attrs) ==
    [parent |-> parent, kind |-> "elem", ns |-> ns, tag |-> tag,
     attrs |-> attrs, text |-> <<>>]

\* a text node
Text(parent, text) ==
    [parent |-> parent, kind |-> "text", ns |-> "html", tag |-> "#text",
     attrs |-> {}, text |-> text]

\* Element.hasAttribute
HasAttr(n, a) == \E p \in n.attrs : p[1] = a

\* Element.getAttribute(a) || ''
GetAttr(n, a) ==
    IF HasAttr(n, a) THEN (CHOOSE p \in n.attrs : p[1] = a)[2] ELSE <<>>

RECURSIVE IsAncestor(_, _, _)
\* node a is a proper ancestor of node j
IsAncestor(d, a, j) ==
    IF j = 0 THEN FALSE
    ELSE LET p == d[j].parent IN p = a \/ (p > a /\ IsAncestor(d, a, p))

\* the proper descendants of node r; r = 0 stands for the document itself
Descendants(d, r) ==
    IF r = 0 THEN 1..Len(d) ELSE {j \in (r + 1)..Len(d) : IsAncestor(d, r, j)}

\* index of the last node of the subtree of i (the subtree is i..SubtreeEnd)
SubtreeEnd(d, i) == i + Cardinality(Descendants(d, i))

\* Node.childNodes, in order
ChildNodes(d, i) ==
    LET IsChild(j) == d[j].parent = i
    IN  SelectSeq([j \in 1..Len(d) |-> j], IsChild)

\* number of ancestors that are elements (the parentElement chain)
RECURSIVE Depth(_, _)
Depth(d, i) == IF d[i].parent = 0 THEN 0 ELSE 1 + Depth(d, d[i].parent)

\* Node.textContent
TextContent(d, i) ==
    LET IsText(j) == d[j].kind = "text" /\ (j = i \/ IsAncestor(d, i, j))
        idx == SelectSeq([j \in 1..Len(d) |-> j], IsText)
    IN  Flatten([k \in 1..Len(idx) |-> d[idx[k]].text])

\* element.textContent?.trim().length || 0
TextLength(d, i) ==
    LET s == TextContent(d, i)
        a == FirstNonWs(s, 1)
    IN  IF a > Len(s) THEN 0 ELSE LastNonWs(s, Len(s)) - a + 1

\* Node.removeChild applied to node i: the tree without the subtree of i
RemoveSubtree(d, i) ==
    LET e == SubtreeEnd(d, i)
        n == e - i + 1
    IN  [k \in 1..(Len(d) - n) |->
            LET nd == d[IF k < i THEN k ELSE k + n]
            IN  [nd EXCEPT !.parent = IF @ > e THEN @ - n ELSE @]]

\* Node.cloneNode(true) of node i: a detached tree rooted at a copy of i
CloneNode(d, i) ==
    [k \in 1..(SubtreeEnd(d, i) - i + 1) |->
        LET nd == d[i + k - 1]
        IN  [nd EXCEPT !.parent = IF k = 1 THEN 0 ELSE @ - (i - 1)]]

(* Selectors.  A compound selector is tag.cls#id[tests]; a selector list   *)
(* (a, b, ...) is a set of compound selectors.                             *)
Sel(tag, cls, id, tests) == [tag |-> tag, cls |-> cls, id |-> id, tests |-> tests]
TagSel(tag) == Sel(tag, {}, <<>>, {})
ClsSel(c) == Sel("*", {c}, <<>>, {})
IdSel(i) == Sel("*", {}, i, {})
AttrSel(a, op, v) == Sel("*", {}, <<>>, {<<a, op, v>>})

\* Element.matches for one compound selector
MatchesCompound(n, c) ==
    /\ n.kind = "elem"
    /\ c.tag = "*" \/ n.tag = c.tag
    /\ c.cls \subseteq ClassTokens(GetAttr(n, "class"))
    /\ c.id = <<>> \/ (HasAttr(n, "id") /\ GetAttr(n, "id") = c.id)
    /\ \A t \in c.tests :
          /\ HasAttr(n, t[1])
          /\ CASE t[2] = "="  -> GetAttr(n, t[1]) = t[3]
               [] t[2] = "*=" -> t[3] # <<>> /\ Includes(GetAttr(n, t[1]), t[3])
               [] OTHER       -> TRUE

\* Element.matches for a selector list
Matches(n, sel) == \E c \in sel : MatchesCompound(n, c)

\* root.querySelectorAll(sel): the matching descendants in document order
QuerySelectorAll(d, r, sel) ==
    LET Hit(j) == (r = 0 \/ IsAncestor(d, r, j)) /\ Matches(d[j], sel)
    IN  SelectSeq([j \in 1..Len(d) |-> j], Hit)

\* root.querySelector(sel): the first match, 0 for null
QuerySelector(d, r, sel) ==
    LET all == QuerySelectorAll(d, r, sel)
    IN  IF all = <<>> THEN 0 ELSE all[1]

\* root.getElementsByTagName(tag)
GetElementsByTagName(d, r, tag) == QuerySelectorAll(d, r, {TagSel(tag)})

----------------------------------------------------------------------------
(* findMainContent.  Scores are held in units of 1/ScoreUnit and           *)
(* confidences in units of 1/(ScoreUnit * ScoreUnit), so that              *)
(* textLength / 100, depth * 1.5, score * 0.5, score / 200 and             *)
(* baseConfidence * 0.7 are all whole numbers.                             *)

MIN_CONTENT_LENGTH == 100

ScoreUnit == 200

Min(a, b) == IF a < b THEN a ELSE b
Max(a, b) == IF a > b THEN a ELSE b

\* an element reference: a node of one of the trees.  Null is no element.
Ref(tree, idx) == [tree |-> tree, idx |-> idx]
Null == Ref("none", 0)

\* a MainContentResult
MainContentResult(el, confidence, score, textLength) ==
    [element |-> el, confidence |-> confidence, score |-> score,
     textLength |-> textLength]

\* a rule of trySpecificPlatforms fires: its detector matches the live
\* document and its content selector resolves there
PlatformRule(live, detected, content, confidence, score) ==
    LET Rule(el) ==
            IF detected /\ el # 0
            THEN <<MainContentResult(Ref("live", el), confidence,
                                     score * ScoreUnit, TextLength(live, el))>>
            ELSE <<>>
    IN  Rule(QuerySelector(live, 0, content))

\* detector of the Feishu rule
FeishuDetector ==
    {Sel("*", {<<"b","e","a","r","-","w","e","b","-","x","-","c","o","n","t","a","i","n","e","r">>}, <<>>, {}),
     Sel("*", {<<"d","o","c","x","-","p","a","g","e","-","b","l","o","c","k">>}, <<>>, {}),
     Sel("*", {<<"p","a","g","e","-","b","l","o","c","k","-","c","o","n","t","e","n","t">>}, <<>>, {})}

\* content selector of the Feishu rule
FeishuContent ==
    {Sel("*", {<<"p","a","g","e","-","m","a","i","n","-","i","t","e","m">>, <<"e","d","i","t","o","r">>}, <<>>, {}),
     Sel("*", {<<"p","a","g","e","-","b","l","o","c","k","-","c","h","i","l","d","r","e","n">>}, <<>>, {})}

\* detector of the Radix UI rule
RadixDetector ==
    {Sel("*", {}, <<>>, {<<"class", "*=", <<"r","a","d","i","x">>>>})}

\* content selector of the Radix UI rule
RadixContent ==
    {Sel("MAIN", {}, <<>>, {<<"class", "*=", <<"c","o","n","t","e","n","t">>>>}),
     Sel("*", {}, <<>>, {<<"class", "*=", <<"d","o","c","s","-","c","o","n","t","e","n","t">>>>}),
     Sel("*", {}, <<>>, {<<"id", "*=", <<"c","o","n","t","e","n","t">>>>})}

\* detector of the technical-documentation rule
DocsDetector ==
    {Sel("*", {}, <<>>, {<<"class", "*=", <<"a","r","t","i","c","l","e">>>>}),
     Sel("*", {}, <<>>, {<<"class", "*=", <<"d","o","c","u","m","e","n","t","a","t","i","o","n">>>>}),
     Sel("*", {}, <<>>, {<<"class", "*=", <<"d","o","c","s","-">>>>})}

\* content selector of the technical-documentation rule
DocsContent ==
    {Sel("*", {}, <<>>, {<<"class", "*=", <<"a","r","t","i","c","l","e","-","c","o","n","t","e","n","t">>>>}),
     Sel("*", {}, <<>>, {<<"class", "*=", <<"d","o","c","-","c","o","n","t","e","n","t">>>>}),
     Sel("MAIN", {}, <<>>, {<<"class", "*=", <<"c","o","n","t","e","n","t">>>>})}

\* candidateSelectors, in the order of the array
candidateSelectors ==
    <<{Sel("ARTICLE", {}, <<>>, {})},
      {Sel("MAIN", {}, <<>>, {})},
      {Sel("SECTION", {}, <<>>, {})},
      {Sel("*", {}, <<>>, {<<"role", "=", <<"m","a","i","n">>>>})},
      {Sel("*", {}, <<>>, {<<"role", "=", <<"a","r","t","i","c","l","e">>>>})},
      {Sel("*", {}, <<>>, {<<"role", "=", <<"d","o","c","u","m","e","n","t">>>>})},
      {Sel("*", {}, <<>>, {<<"role", "=", <<"c","o","n","t","e","n","t","i","n","f","o">>>>})},
      {Sel("*", {}, <<"m","a","i","n">>, {})},
      {Sel("*", {}, <<"m","a","i","n","-","c","o","n","t","e","n","t">>, {})},
      {Sel("*", {}, <<"m","a","i","n","C","o","n","t","e","n","t">>, {})},
      {Sel("*", {}, <<"a","r","t","i","c","l","e">>, {})},
      {Sel("*", {}, <<"p","o","s","t">>, {})},
      {Sel("*", {}, <<"p","o","s","t","-","c","o","n","t","e","n","t">>, {})},
      {Sel("*", {}, <<"c","o","n","t","e","n","t">>, {})},
      {Sel("*", {}, <<"d","o","c","u","m","e","n","t","a","t","i","o","n">>, {})},
      {Sel("*", {}, <<"d","o","c","s","-","c","o","n","t","e","n","t">>, {})},
      {Sel("*", {}, <<"a","p","i","-","r","e","f","e","r","e","n","c","e">>, {})},
      {Sel("*", {<<"d","o","c","s","-","c","o","n","t","e","n","t">>}, <<>>, {})},
      {Sel("*", {<<"m","a","r","k","d","o","w","n","-","b","o","d","y">>}, <<>>, {})},
      {Sel("*", {<<"d","o","c","u","m","e","n","t","a","t","i","o","n","-","c","o","n","t","e","n","t">>}, <<>>, {})},
      {Sel("*", {<<"a","p","i","-","c","o","n","t","e","n","t">>}, <<>>, {})},
      {Sel("*", {<<"a","p","i","-","d","o","c","s">>}, <<>>, {})},
      {Sel("*", {<<"a","p","i","-","r","e","f","e","r","e","n","c","e">>}, <<>>, {})},
      {Sel("*", {<<"d","o","c","s","-","s","e","c","t","i","o","n">>}, <<>>, {})},
      {Sel("*", {<<"m","a","i","n","-","c","o","n","t","e","n","t">>}, <<>>, {})}>>

\* excludeSelectors; some(...) makes it one selector list
excludeSelectors ==
    {Sel("HEADER", {}, <<>>, {}),
     Sel("FOOTER", {}, <<>>, {}),
     Sel("NAV", {}, <<>>, {}),
     Sel("ASIDE", {}, <<>>, {}),
     Sel("*", {<<"s","i","d","e","b","a","r">>}, <<>>, {}),
     Sel("*", {<<"c","o","m","m","e","n","t">>}, <<>>, {}),
     Sel("*", {<<"c","o","m","m","e","n","t","s">>}, <<>>, {}),
     Sel("*", {<<"a","d">>}, <<>>, {}),
     Sel("*", {<<"a","d","v","e","r","t","i","s","e","m","e","n","t">>}, <<>>, {}),
     Sel("*", {<<"b","a","n","n","e","r">>}, <<>>, {}),
     Sel("*", {}, <<"h","e","a","d","e","r">>, {}),
     Sel("*", {}, <<"f","o","o","t","e","r">>, {}),
     Sel("*", {}, <<"s","i","d","e","b","a","r">>, {}),
     Sel("*", {}, <<"c","o","m","m","e","n","t","s">>, {}),
     Sel("*", {}, <<"n","a","v","i","g","a","t","i","o","n">>, {}),
     Sel("*", {}, <<>>, {<<"class", "*=", <<"s","i","d","e","b","a","r">>>>}),
     Sel("*", {}, <<>>, {<<"class", "*=", <<"a","d","v","e","r","t">>>>}),
     Sel("*", {}, <<>>, {<<"id", "*=", <<"a","d","v","e","r","t">>>>}),
     Sel("*", {}, <<>>, {<<"role", "*=", <<"n","a","v","i","g","a","t","i","o","n">>>>}),
     Sel("*", {}, <<>>, {<<"role", "*=", <<"b","a","n","n","e","r">>>>}),
     Sel("*", {}, <<>>, {<<"class", "*=", <<"n","a","v","-">>>>}),
     Sel("*", {}, <<>>, {<<"class", "*=", <<"-","n","a","v">>>>}),
     Sel("*", {}, <<>>, {<<"class", "*=", <<"m","e","n","u">>>>}),
     Sel("*", {}, <<>>, {<<"class", "*=", <<"s","o","c","i","a","l">>>>}),
     Sel("*", {}, <<>>, {<<"class", "*=", <<"r","e","l","a","t","e","d">>>>}),
     Sel("*", {}, <<>>, {<<"class", "*=", <<"w","i","d","g","e","t">>>>}),
     Sel("*", {}, <<>>, {<<"class", "*=", <<"t","o","o","l","b","a","r">>>>}),
     Sel("FORM", {}, <<>>, {}),
     Sel("*", {<<"s","e","a","r","c","h">>}, <<>>, {}),
     Sel("*", {}, <<"s","e","a","r","c","h">>, {}),
     Sel("*", {}, <<>>, {<<"class", "*=", <<"s","e","a","r","c","h">>>>})}

\* the alternatives of the regular expression of line 351, without its CJK
\* alternatives (no text of the model holds a CJK character)
IntroductionWords ==
    {<<"i","n","t","r","o","d","u","c","t","i","o","n">>,
     <<"o","v","e","r","v","i","e","w">>,
     <<"g","e","t","t","i","n","g"," ","s","t","a","r","t","e","d">>}

\* the alternatives of the regular expression of line 357, without its CJK
\* alternatives
ApiWords ==
    {<<"a","p","i">>,
     <<"r","e","f","e","r","e","n","c","e">>,
     <<"p","r","o","p","s">>,
     <<"p","a","r","a","m","e","t","e","r","s">>,
     <<"a","r","g","u","m","e","n","t","s">>,
     <<"m","e","t","h","o","d","s">>,
     <<"f","u","n","c","t","i","o","n","s">>,
     <<"a","t","t","r","i","b","u","t","e","s">>,
     <<"o","p","t","i","o","n","s">>,
     <<"c","o","n","f","i","g","u","r","a","t","i","o","n">>,
     <<"i","n","t","e","r","f","a","c","e">>}

\* trySpecificPlatforms: the first rule that fires, <<>> for null.  All its
\* queries are document.querySelector: they search the live document.
trySpecificPlatforms(live, href) ==
    LET FirstOf(feishu, radix, docs) ==
            IF feishu # <<>> THEN feishu
            ELSE IF radix # <<>> THEN radix
            ELSE docs
    IN  FirstOf(PlatformRule(live, QuerySelector(live, 0, FeishuDetector) # 0,
                             FeishuContent, 38000, 190),
                PlatformRule(live,
                             \/ QuerySelector(live, 0, RadixDetector) # 0
                             \/ Includes(href, <<"r","a","d","i","x","-","u","i",".","c","o","m">>),
                             RadixContent, 36000, 180),
                PlatformRule(live, QuerySelector(live, 0, DocsDetector) # 0,
                             DocsContent, 34000, 170))

\* evaluateSemanticCandidate without the discount of a short text
evaluateSemanticCandidateFlat(d, el, base) ==
    IF el = 0 THEN <<>>
    ELSE <<MainContentResult(Ref("copy", el), base * 2 * ScoreUnit,
                             base * ScoreUnit, TextLength(d, el))>>

\* evaluateSemanticCandidate; base is baseConfidence * 100, <<>> is null
evaluateSemanticCandidate(d, el, base) ==
    IF el = 0 THEN <<>>
    ELSE LET Result(textLength) ==
                 <<MainContentResult(Ref("copy", el),
                      IF textLength < MIN_CONTENT_LENGTH
                      THEN (base * 2 * ScoreUnit * 7) \div 10
                      ELSE base * 2 * ScoreUnit,
                      base * ScoreUnit, textLength)>>
         IN  Result(TextLength(d, el))

\* the five semantic queries of trySemanticElements, in order, with
\* baseConfidence * 100
SemanticQueries ==
    << <<{TagSel("MAIN")}, 95>>,
       <<{TagSel("ARTICLE")}, 90>>,
       <<{AttrSel("role", "=", <<"m","a","i","n">>)}, 85>>,
       <<{AttrSel("role", "=", <<"a","r","t","i","c","l","e">>)}, 85>>,
       <<{AttrSel("role", "=", <<"d","o","c","u","m","e","n","t">>)}, 80>> >>

\* results.sort((a, b) => b.textLength - a.textLength)[0] of a non-empty
\* array: the first of the longest (the sort is stable)
LongestFirst(rs) ==
    rs[CHOOSE i \in 1..Len(rs) :
          /\ \A j \in 1..Len(rs) : rs[j].textLength <= rs[i].textLength
          /\ \A j \in 1..(i - 1) : rs[j].textLength < rs[i].textLength]

\* trySemanticElements on contentContainer d: <<>> for null
trySemanticElements(d) ==
    LET Pick(res, good, all) ==
            IF good # {} THEN res[CHOOSE k \in good : \A j \in good : k <= j]
            ELSE IF all # <<>> THEN <<LongestFirst(all)>>
            ELSE <<>>
        Of(res) ==
            Pick(res,
                 {k \in 1..Len(res) :
                     res[k] # <<>> /\ res[k][1].textLength >= MIN_CONTENT_LENGTH},
                 Flatten(res))
    IN  Of([k \in 1..Len(SemanticQueries) |->
               evaluateSemanticCandidate(
                   d, QuerySelector(d, 1, SemanticQueries[k][1]),
                   SemanticQueries[k][2])])

\* isExcludedElement for an element of contentContainer.  The element is
\* in a detached clone, for which getComputedStyle reports no display,
\* visibility or opacity: the style test is never true.
isExcludedElement(d, i) == Matches(d[i], excludeSelectors)

\* number of matches of a selector list below element i
Count(d, i, sel) == Len(QuerySelectorAll(d, i, sel))

\* countTextNodes: the text nodes below i whose trimmed text is not empty
countTextNodes(d, i) ==
    Cardinality({j \in Descendants(d, i) :
                    d[j].kind = "text" /\ Trim(d[j].text) # <<>>})

\* element.className is a string for an HTML element and an
\* SVGAnimatedString object for an SVG element
ClassNameIsString(n) == n.ns # "svg"

\* scoreElement raises a TypeError: (element.className || '') is an object
\* without toLowerCase
scoreElementThrows(d, i) ==
    ~isExcludedElement(d, i) /\ ~ClassNameIsString(d[i])

\* scoreElement, in units of 1/ScoreUnit
scoreElement(d, i) ==
    IF isExcludedElement(d, i) THEN 0
    ELSE
    LET n == d[i]
        U == ScoreUnit
        textLength == TextLength(d, i)
        text == TextContent(d, i)
        lengthScore == Min(2 * textLength, 50 * U)
        s1 == IF textLength < MIN_CONTENT_LENGTH THEN lengthScore \div 2
              ELSE lengthScore
        paragraphs == Count(d, i, {TagSel("P")})
        s2 == U * Min(paragraphs * 2, 30)
        HeadSel(ts) == {TagSel(t) : t \in ts}
        headings == Count(d, i, HeadSel({"H1","H2","H3","H4","H5","H6"}))
        s3 == U * Min(headings * 8, 40)
             + (IF /\ headings >= 2
                   /\ QuerySelector(d, i, HeadSel({"H1","H2"})) # 0
                   /\ QuerySelector(d, i, HeadSel({"H3","H4","H5","H6"})) # 0
                THEN U * 15 ELSE 0)
        codeBlocks == Count(d, i,
            {TagSel("PRE"), TagSel("CODE"),
             AttrSel("class", "*=", <<"c","o","d","e">>),
             AttrSel("class", "*=", <<"l","a","n","g","u","a","g","e","-">>)})
        apiElements == Count(d, i,
            {AttrSel("class", "*=", <<"a","p","i">>),
             AttrSel("id", "*=", <<"a","p","i">>),
             AttrSel("class", "*=", <<"r","e","f","e","r","e","n","c","e">>),
             AttrSel("id", "*=", <<"r","e","f","e","r","e","n","c","e">>)})
        s4 == U * Min(codeBlocks * 10, 30) + (IF apiElements > 0 THEN U * 20 ELSE 0)
        images == Count(d, i, {TagSel("IMG")})
        s5 == U * Min(images * 3, 15)
        tables == Count(d, i, {TagSel("TABLE")})
        s6 == U * Min(tables * 15, 30)
             + (IF /\ tables > 0
                   /\ Count(d, i, {TagSel("TR")}) > 3
                   /\ Count(d, i, {TagSel("TD"), TagSel("TH")}) > 10
                THEN U * 15 ELSE 0)
        links == Count(d, i, {TagSel("A")})
        s7 == IF links * 10 > 4 * Max(textLength, 1) THEN 0 - U * 15 ELSE 0
        role == GetAttr(n, "role")
        s8 == (IF n.tag = "ARTICLE" THEN U * 30 ELSE 0)
            + (IF n.tag = "MAIN" THEN U * 25 ELSE 0)
            + (IF n.tag = "SECTION" THEN U * 15 ELSE 0)
            + (IF role = <<"m","a","i","n">> THEN U * 25 ELSE 0)
            + (IF role = <<"d","o","c","u","m","e","n","t">> THEN U * 25 ELSE 0)
            + (IF role = <<"a","r","t","i","c","l","e">> THEN U * 25 ELSE 0)
        s9 == 0 - (Depth(d, i) * 3 * U) \div 2
        lists == Count(d, i, {TagSel("UL"), TagSel("OL")})
        s10 == U * Min(lists * 5, 15)
             + (IF lists > 0 /\ Count(d, i, {TagSel("LI")}) > 8 THEN U * 10 ELSE 0)
        s11 == IF MatchesAnyWord(text, IntroductionWords) THEN U * 15 ELSE 0
        s12 == IF MatchesAnyWord(text, ApiWords) THEN U * 20 ELSE 0
        textNodes == countTextNodes(d, i)
        codeElements == Count(d, i, {TagSel("CODE"), TagSel("PRE")})
        s13 == IF /\ textNodes > 0 /\ codeElements > 0
                  /\ codeElements * 20 > textNodes
                  /\ codeElements * 2 < textNodes
               THEN U * 15 ELSE 0
        className == ToLowerCase(GetAttr(n, "class"))
        id == ToLowerCase(GetAttr(n, "id"))
        keys == {<<"c","o","n","t","e","n","t">>, <<"m","a","i","n">>,
                 <<"a","r","t","i","c","l","e">>, <<"p","o","s","t">>,
                 <<"d","o","c">>}
        s14 == IF \E k \in keys : Includes(className, k) \/ Includes(id, k)
               THEN U * 10 ELSE 0
    IN  Max(0, s1 + s2 + s3 + s4 + s5 + s6 + s7 + s8 + s9 + s10 + s11 + s12
               + s13 + s14)

\* evaluateContent
evaluateContent(d, i) ==
    LET Result(score) ==
            MainContentResult(Ref("copy", i), score, score, TextLength(d, i))
    IN  Result(scoreElement(d, i))

RECURSIVE AddCandidates(_, _, _)
\* elements.forEach(element => { if (!candidates.includes(element) &&
\* !isExcludedElement(element)) candidates.push(element) })
AddCandidates(d, cands, els) ==
    IF els = <<>> THEN cands
    ELSE LET el == Head(els)
             In(c) == \E k \in 1..Len(c) : c[k] = el
         IN  AddCandidates(d,
                 IF ~In(cands) /\ ~isExcludedElement(d, el)
                 THEN Append(cands, el) ELSE cands,
                 Tail(els))

RECURSIVE SelectorCandidates(_, _, _)
\* candidateSelectors.forEach(selector => ...), from selector k on
SelectorCandidates(d, cands, k) ==
    IF k > Len(candidateSelectors) THEN cands
    ELSE SelectorCandidates(d,
             AddCandidates(d, cands, QuerySelectorAll(d, 1, candidateSelectors[k])),
             k + 1)

\* the candidate elements of findMainContent (step 3)
Candidates(d) ==
    LET wide == {TagSel("DIV"), TagSel("SECTION"), TagSel("ARTICLE"), TagSel("MAIN")}
        Widen(first) ==
            IF \/ first = <<>>
               \/ ~\E k \in 1..Len(first) : TextLength(d, first[k]) >= MIN_CONTENT_LENGTH
            THEN AddCandidates(d, first, QuerySelectorAll(d, 1, wide))
            ELSE first
    IN  Widen(SelectorCandidates(d, <<>>, 1))

\* the comparator of recognitionResults.sort
Compare(a, b) ==
    LET diff == b.score - a.score
    IN  IF (IF diff < 0 THEN 0 - diff ELSE diff) > 50 * ScoreUnit THEN diff
        ELSE b.textLength - a.textLength

(* Array.prototype.sort as the extension's engine (V8) runs it on an array *)
(* shorter than 64: the leading run is found, reversed when descending,    *)
(* and the rest is inserted by binary insertion.                           *)
RECURSIVE RunLength(_, _, _)
RunLength(a, idx, desc) ==
    IF idx > Len(a) THEN Len(a)
    ELSE LET order == Compare(a[idx], a[idx - 1])
         IN  IF (desc /\ order >= 0) \/ (~desc /\ order < 0) THEN idx - 1
             ELSE RunLength(a, idx + 1, desc)

RECURSIVE InsertionPoint(_, _, _, _)
InsertionPoint(a, pivot, left, right) ==
    IF left >= right THEN left
    ELSE LET mid == left + ((right - left) \div 2)
         IN  IF Compare(pivot, a[mid]) < 0
             THEN InsertionPoint(a, pivot, left, mid)
             ELSE InsertionPoint(a, pivot, mid + 1, right)

RECURSIVE BinaryInsertionSort(_, _)
BinaryInsertionSort(a, start) ==
    IF start > Len(a) THEN a
    ELSE LET pivot == a[start]
             pos == InsertionPoint(a, pivot, 1, start)
         IN  BinaryInsertionSort(
                 [k \in 1..Len(a) |->
                     IF k < pos THEN a[k]
                     ELSE IF k = pos THEN pivot
                     ELSE IF k <= start THEN a[k - 1]
                     ELSE a[k]],
                 start + 1)

SortResults(a) ==
    IF Len(a) < 2 THEN a
    ELSE LET desc == Compare(a[2], a[1]) < 0
             runLen == RunLength(a, 3, desc)
             made == IF desc
                     THEN [k \in 1..Len(a) |->
                              IF k <= runLen THEN a[runLen + 1 - k] ELSE a[k]]
                     ELSE a
         IN  BinaryInsertionSort(made, runLen + 1)

\* recognitionResults before the sort: the platform result, the semantic
\* result and the scored candidates
recognitionResults(live, copy, href) ==
    LET Scored(cands) == [k \in 1..Len(cands) |-> evaluateContent(copy, cands[k])]
    IN  trySpecificPlatforms(live, href) \o trySemanticElements(copy)
        \o Scored(Candidates(copy))

\* candidates.map(element => evaluateContent(element)) raises
findMainContentThrows(copy) ==
    LET Some(cands) == \E k \in 1..Len(cands) : scoreElementThrows(copy, cands[k])
    IN  Some(Candidates(copy))

\* what findMainContent returns from step 5 on, given recognitionResults
\* before the sort
SelectMainContent(rs) ==
    LET Better(c, topCandidate) ==
            /\ c.textLength > topCandidate.textLength * 2
            /\ c.score * 10 > topCandidate.score * 7
        Pick(sorted, topCandidate, better) ==
            IF topCandidate.textLength < MIN_CONTENT_LENGTH * 3 /\ better # {}
            THEN sorted[CHOOSE k \in better : \A j \in better : k <= j].element
            ELSE IF topCandidate.textLength < MIN_CONTENT_LENGTH THEN Ref("copy", 1)
            ELSE topCandidate.element
        Of(sorted) ==
            IF sorted = <<>> THEN Ref("copy", 1)
            ELSE Pick(sorted, sorted[1],
                      {k \in 1..Len(sorted) : Better(sorted[k], sorted[1])})
    IN  Of(SortResults(rs))

\* findMainContent, when it does not raise
findMainContent(live, copy, href) ==
    SelectMainContent(recognitionResults(live, copy, href))

----------------------------------------------------------------------------
(* convertToMarkdown.  An exception raised inside the recursion is the     *)
(* character Raised in the string: every caller concatenates what its      *)
(* callees return, so the character reaches the outermost result.          *)

Raised == "<exception>"

Throws(s) == \E i \in 1..Len(s) : s[i] = Raised

Digits == <<"0","1","2","3","4","5","6","7","8","9">>

IsDigit(c) == \E k \in 1..10 : Digits[k] = c

DigitValue(c) == (CHOOSE k \in 1..10 : Digits[k] = c) - 1

IsAlnum(c) == IsDigit(c) \/ c \in UpperCaseLetters \/ LowerChar(c) # c
              \/ c \in {LowerCase[k] : k \in 1..26}

RECURSIVE ParseDigits(_, _, _)
\* the value of the decimal digits of s from position i on, acc so far
ParseDigits(s, i, acc) ==
    IF i > Len(s) \/ ~IsDigit(s[i]) THEN acc
    ELSE ParseDigits(s, i + 1, acc * 10 + DigitValue(s[i]))

\* parseInt(s) for a string without a hexadecimal prefix: white space, a
\* sign, then the longest run of digits; NaN when there is no digit
parseInt(s) ==
    LET a == FirstNonWs(s, 1)
        signed == a <= Len(s) /\ s[a] \in {"-", "+"}
        b == IF signed THEN a + 1 ELSE a
    IN  IF b > Len(s) \/ ~IsDigit(s[b]) THEN [nan |-> TRUE, val |-> 0]
        ELSE [nan |-> FALSE,
              val |-> IF signed /\ s[a] = "-" THEN 0 - ParseDigits(s, b, 0)
                      ELSE ParseDigits(s, b, 0)]

\* '#'.repeat(level): NaN counts as 0, a negative count is a RangeError
RepeatHash(level) ==
    IF level.nan THEN <<>>
    ELSE IF level.val < 0 THEN <<Raised>>
    ELSE [k \in 1..level.val |-> "#"]

\* isInlineElement
inlineElements ==
    {"SPAN", "STRONG", "EM", "B", "I", "CODE", "SUB", "SUP", "MARK", "SMALL",
     "DEL", "INS", "U"}

isInlineElement(n) == n.tag \in inlineElements

HeadingTags == <<"H1", "H2", "H3", "H4", "H5", "H6">>

\* element.tagName.match(/^H[1-6]$/)
IsHeadingTag(n) == \E k \in 1..6 : HeadingTags[k] = n.tag

\* dataType.match(/^h[1-6]$/i)
IsHeadingDataType(s) ==
    Len(s) = 2 /\ LowerChar(s[1]) = "h" /\ s[2] \in {"1","2","3","4","5","6"}

S_heading == <<"h","e","a","d","i","n","g">>

\* the condition of the heading branch
IsHeadingElement(n) ==
    \/ IsHeadingTag(n)
    \/ /\ n.tag = "DIV"
       /\ \/ (HasAttr(n, "data-block-type")
                /\ StartsWith(GetAttr(n, "data-block-type"), S_heading))
          \/ IsHeadingDataType(GetAttr(n, "data-type"))

\* the level of the heading branch
HeadingLevel(n) ==
    LET blockType == GetAttr(n, "data-block-type")
        dataType == GetAttr(n, "data-type")
    IN  IF IsHeadingTag(n)
        THEN [nan |-> FALSE, val |-> CHOOSE k \in 1..6 : HeadingTags[k] = n.tag]
        ELSE IF HasAttr(n, "data-block-type") /\ StartsWith(blockType, S_heading)
        THEN LET rest == SubSeq(blockType, Len(S_heading) + 1, Len(blockType))
             IN  parseInt(IF rest = <<>> THEN <<"1">> ELSE rest)
        ELSE IF IsHeadingDataType(dataType)
        THEN parseInt(SubSeq(dataType, 2, Len(dataType)))
        ELSE [nan |-> FALSE, val |-> 1]

\* className.match(/(?:lang|language|highlight)-([a-zA-Z0-9]+)/): the
\* captured language of the leftmost match, '' when there is none
LanguageOf(className) ==
    LET prefixes == {<<"l","a","n","g","-">>,
                     <<"l","a","n","g","u","a","g","e","-">>,
                     <<"h","i","g","h","l","i","g","h","t","-">>}
        Start(i) == {i + Len(p) : p \in {q \in prefixes :
                        /\ MatchAt(className, q, i)
                        /\ i + Len(q) <= Len(className)
                        /\ IsAlnum(className[i + Len(q)])}}
        hits == {i \in 1..Len(className) : Start(i) # {}}
    IN  IF hits = {} THEN <<>>
        ELSE LET i == CHOOSE h \in hits : \A g \in hits : h <= g
                 from == CHOOSE x \in Start(i) : TRUE
                 to == CHOOSE e \in from..Len(className) :
                          /\ \A k \in from..e : IsAlnum(className[k])
                          /\ e = Len(className) \/ ~IsAlnum(className[e + 1])
             IN  SubSeq(className, from, to)

\* lines.map(line => line ? '> ' + line : '>').join('\n') of split('\n')
QuoteLines(s) ==
    LET lines == SplitLines(s)
    IN  JoinWith([k \in 1..Len(lines) |->
                     IF lines[k] # <<>> THEN <<">", " ">> \o lines[k] ELSE <<">">>],
                 <<"\n">>)

\* the text lines of the bullet-list and numbered-list block types:
\* textContent.split('\n').filter(line => line.trim()) with each line
\* trimmed and prefixed, joined by '\n'
RECURSIVE NumberString(_)
NumberString(n) ==
    IF n < 10 THEN <<Digits[n + 1]>>
    ELSE Append(NumberString(n \div 10), Digits[(n % 10) + 1])

ListLines(s, numbered) ==
    LET NonBlank(l) == Trim(l) # <<>>
        lines == SelectSeq(SplitLines(s), NonBlank)
    IN  JoinWith([k \in 1..Len(lines) |->
                     (IF numbered THEN NumberString(k) \o <<".", " ">>
                      ELSE <<"-", " ">>) \o Trim(lines[k])],
                 <<"\n">>)

\* the backtick character (the module's strings cannot hold one)
Backtick == "<backtick>"

\* a fenced code block
Fence(language, code) ==
    <<Backtick, Backtick, Backtick>> \o language \o <<"\n">> \o code
    \o <<"\n", Backtick, Backtick, Backtick, "\n", "\n">>

\* the selector gutter.tagName + (gutter.className ? '.' +
\* gutter.className.split(' ').join('.') : ''); <<>> when the string is
\* not a valid selector (an empty class name between two dots)
GutterSelector(n) ==
    LET className == GetAttr(n, "class")
        parts == SplitAt(className, {" "}, <<>>)
    IN  IF className = <<>> THEN <<TagSel(n.tag)>>
        ELSE IF \E k \in 1..Len(parts) : parts[k] = <<>> THEN <<>>
        ELSE <<Sel(n.tag, {parts[k] : k \in 1..Len(parts)}, <<>>, {})>>

RECURSIVE RemoveGutters(_, _, _)
\* gutterElements.forEach(gutter => { const matchingElement =
\* tempContainer.querySelector(...); if (matchingElement &&
\* matchingElement.parentNode) matchingElement.parentNode.removeChild(...) })
\* on tempContainer temp, for the gutters (nodes of d) from the k-th on.
\* An invalid selector makes querySelector raise: the result is <<>>.
RemoveGutters(d, temp, gutters) ==
    LET Without(hit) == IF hit # 0 THEN RemoveSubtree(temp, hit) ELSE temp
        With(sel) ==
            IF sel = <<>> THEN <<>>
            ELSE RemoveGutters(d, Without(QuerySelector(temp, 1, {sel[1]})),
                               Tail(gutters))
    IN  IF gutters = <<>> THEN <<temp>>
        ELSE With(GutterSelector(d[Head(gutters)]))

\* the gutter elements of the code block type (line 664)
CodeGutterSelectors ==
    {ClsSel(<<"g","u","t","t","e","r">>),
     ClsSel(<<"l","i","n","e","-","n","u","m","b","e","r","s">>),
     AttrSel("data-line-number", "has", <<>>),
     AttrSel("class", "*=", <<"l","i","n","e","n","u","m","b","e","r">>),
     AttrSel("class", "*=", <<"l","i","n","e","-","n","u","m","b","e","r">>),
     AttrSel("class", "*=", <<"g","u","t","t","e","r">>)}

\* gutterSelectors of the PRE branch, in the order of the array
PreGutterSelectors ==
    <<{ClsSel(<<"g","u","t","t","e","r">>)},
      {ClsSel(<<"l","i","n","e","-","n","u","m","b","e","r","s">>)},
      {ClsSel(<<"l","i","n","e","-","n","u","m","b","e","r">>)},
      {ClsSel(<<"h","l","j","s","-","l","n","-","n","u","m","b","e","r","s">>)},
      {AttrSel("data-line-number", "has", <<>>)},
      {AttrSel("class", "*=", <<"l","i","n","e","n","u","m","b","e","r">>)},
      {AttrSel("class", "*=", <<"l","i","n","e","-","n","u","m","b","e","r">>)},
      {AttrSel("class", "*=", <<"g","u","t","t","e","r">>)}>>

\* gutterSelectors.flatMap(selector => Array.from(element.querySelectorAll(selector)))
PreGutterElements(d, el) ==
    Flatten([k \in 1..Len(PreGutterSelectors) |->
                QuerySelectorAll(d, el, PreGutterSelectors[k])])

\* blockType || dataType of the P/DIV branch
BlockTypeOf(n) ==
    IF GetAttr(n, "data-block-type") # <<>> THEN GetAttr(n, "data-block-type")
    ELSE GetAttr(n, "data-type")

\* the tempContainer of a gutter removal at element el after the removals,
\* <<>> when el makes none or querySelector raises
TempContainer(d, el) ==
    LET n == d[el]
        Remove(gutters) ==
            IF gutters # <<>> THEN RemoveGutters(d, CloneNode(d, el), gutters)
            ELSE <<>>
    IN  Remove(IF /\ n.tag \in {"P", "DIV"} /\ ~IsHeadingElement(n)
                  /\ BlockTypeOf(n) = <<"c","o","d","e">>
               THEN IF QuerySelectorAll(d, el, {AttrSel("data-type", "=",
                           <<"c","o","d","e","-","l","i","n","e">>)}) = <<>>
                    THEN QuerySelectorAll(d, el, CodeGutterSelectors)
                    ELSE <<>>
               ELSE IF n.tag = "PRE" /\ QuerySelector(d, el, {TagSel("CODE")}) = 0
               THEN PreGutterElements(d, el)
               ELSE <<>>)

\* hasGutter && hasCode of the TABLE branch
IsCodeTable(d, el) ==
    /\ QuerySelector(d, el, {ClsSel(<<"g","u","t","t","e","r">>),
                             AttrSel("class", "*=", <<"g","u","t","t","e","r">>)}) # 0
    /\ QuerySelector(d, el, {ClsSel(<<"c","o","d","e">>),
                             AttrSel("class", "*=", <<"c","o","d","e">>)}) # 0

\* the branch of convertToMarkdown an element takes (the order of the ifs)
Branch(d, el) ==
    LET n == d[el]
        type == BlockTypeOf(n)
    IN  IF IsHeadingElement(n) THEN "heading"
        ELSE IF n.tag \in {"P", "DIV"} THEN
            IF type = <<"q","u","o","t","e">> THEN "quote"
            ELSE IF type = <<"c","o","d","e">> THEN "code"
            ELSE IF type \in {<<"b","u","l","l","e","t","-","l","i","s","t">>, <<"u","l">>}
            THEN "bullet-list"
            ELSE IF type \in {<<"n","u","m","b","e","r","e","d","-","l","i","s","t">>, <<"o","l">>}
            THEN "numbered-list"
            ELSE "paragraph"
        ELSE IF isInlineElement(n) THEN "inline"
        ELSE IF n.tag = "BR" THEN "br"
        ELSE IF n.tag \in {"UL", "OL"} THEN "list"
        ELSE IF n.tag = "A" THEN "a"
        ELSE IF n.tag = "IMG" THEN "img"
        ELSE IF n.tag = "PRE" THEN "pre"
        ELSE IF n.tag = "BLOCKQUOTE" THEN "blockquote"
        ELSE IF n.tag = "TABLE" THEN
            IF IsCodeTable(d, el) THEN "table-code"
            ELSE IF Len(QuerySelectorAll(d, el, {TagSel("TR")})) <= 1
            THEN "table-plain"
            ELSE "table"
        ELSE "other"

\* ignoreSelectors / shouldSkipCell of the TABLE branch
shouldSkipCell(n) ==
    Matches(n, {ClsSel(<<"g","u","t","t","e","r">>),
                ClsSel(<<"l","i","n","e","-","n","u","m","b","e","r","s">>),
                AttrSel("data-role", "=", <<"g","u","t","t","e","r">>),
                AttrSel("class", "*=", <<"g","u","t","t","e","r">>),
                AttrSel("class", "*=", <<"h","e","l","p","e","r">>),
                AttrSel("class", "*=", <<"d","e","c","o","r","a","t","i","o","n">>)})

\* the code of a structured code block: the children of every code line
\* that are not a gutter, each trimmed, one '\n' after every line
CodeLinesText(d, lines) ==
    LET Part(c) ==
            IF d[c].kind = "text" THEN Trim(d[c].text)
            ELSE IF /\ (~HasAttr(d[c], "contenteditable")
                          \/ GetAttr(d[c], "contenteditable") # <<"f","a","l","s","e">>)
                    /\ ClassTokens(GetAttr(d[c], "class")) \cap
                          {<<"g","u","t","t","e","r">>,
                           <<"l","i","n","e","-","n","u","m","b","e","r">>,
                           <<"l","i","n","e","-","n","u","m","b","e","r","s">>} = {}
            THEN Trim(TextContent(d, c))
            ELSE <<>>
        Line(l) == LET kids == ChildNodes(d, l)
                   IN  Flatten([k \in 1..Len(kids) |-> Part(kids[k])]) \o <<"\n">>
    IN  Flatten([k \in 1..Len(lines) |-> Line(lines[k])])

\* a call of convertToMarkdown; after marks the point of the heading branch
\* past its processInlineContent, where '#' is repeated
Call(el, isInline) == [el |-> el, isInline |-> isInline, after |-> FALSE]

AfterInline(el) == [el |-> el, isInline |-> TRUE, after |-> TRUE]

\* the calls processInlineContent(el) makes: every child element, inline
InlineCalls(d, el) ==
    LET IsEl(j) == d[j].kind = "elem"
        kids == SelectSeq(ChildNodes(d, el), IsEl)
    IN  [k \in 1..Len(kids) |-> Call(kids[k], TRUE)]

\* the calls processBlockContent(el) makes: inline for an inline element,
\* block for any other child element
BlockCalls(d, el) ==
    LET IsEl(j) == d[j].kind = "elem"
        kids == SelectSeq(ChildNodes(d, el), IsEl)
    IN  [k \in 1..Len(kids) |-> Call(kids[k], isInlineElement(d[kids[k]]))]

\* the header cells and the rows of the cells of a normal table:
\* <<th elements>>, then per emitted row its td elements
TableHeaderCells(d, el) ==
    LET rows == QuerySelectorAll(d, el, {TagSel("TR")})
        Keep(c) == ~shouldSkipCell(d[c])
    IN  SelectSeq(QuerySelectorAll(d, rows[1], {TagSel("TH")}), Keep)

TableRows(d, el) ==
    LET Keep(c) == ~shouldSkipCell(d[c])
        KeepRow(r) == ~shouldSkipCell(d[r])
        Cells(body) ==
            [k \in 1..Len(body) |->
                SelectSeq(QuerySelectorAll(d, body[k], {TagSel("TD")}), Keep)]
        Of(rows) ==
            Cells(SelectSeq(
                SubSeq(rows,
                       IF QuerySelectorAll(d, rows[1], {TagSel("TH")}) # <<>>
                       THEN 2 ELSE 1,
                       Len(rows)),
                KeepRow))
    IN  Of(QuerySelectorAll(d, el, {TagSel("TR")}))

\* the calls of convertToMarkdown that convertToMarkdown(el, isInline)
\* makes itself, in order
Calls(d, el, isInline) ==
    LET OfAll(els) == Flatten([k \in 1..Len(els) |-> InlineCalls(d, els[k])])
        Of(b) ==
            CASE b \in {"heading", "inline", "a"} -> InlineCalls(d, el)
              [] b \in {"quote", "blockquote", "table-plain", "other"} ->
                    BlockCalls(d, el)
              [] b = "paragraph" ->
                    IF isInline THEN InlineCalls(d, el) ELSE BlockCalls(d, el)
              [] b = "list" -> OfAll(QuerySelectorAll(d, el, {TagSel("LI")}))
              [] b = "table" ->
                    OfAll(TableHeaderCells(d, el) \o Flatten(TableRows(d, el)))
              [] OTHER -> <<>>
    IN  Of(Branch(d, el))

RECURSIVE convertToMarkdown(_, _, _)
RECURSIVE processInlineContent(_, _)
RECURSIVE processBlockContent(_, _, _, _)

\* processInlineContent
processInlineContent(d, el) ==
    LET kids == ChildNodes(d, el)
    IN  Flatten([k \in 1..Len(kids) |->
                    IF d[kids[k]].kind = "text" THEN Trim(d[kids[k]].text)
                    ELSE convertToMarkdown(d, kids[k], TRUE)])

RECURSIVE processBlockContentTrimmed(_, _, _, _)
\* processBlockContent trimming every text node, as processInlineContent does
processBlockContentTrimmed(d, kids, content, currentLine) ==
    LET flushed == IF currentLine # <<>> THEN content \o currentLine \o <<"\n">>
                   ELSE content
    IN  IF kids = <<>> THEN flushed
        ELSE LET c == Head(kids)
             IN  IF d[c].kind = "text"
                 THEN processBlockContentTrimmed(d, Tail(kids), content,
                                                 currentLine \o Trim(d[c].text))
                 ELSE IF isInlineElement(d[c])
                 THEN processBlockContentTrimmed(d, Tail(kids), content,
                          currentLine \o convertToMarkdown(d, c, TRUE))
                 ELSE processBlockContentTrimmed(d, Tail(kids),
                          flushed \o convertToMarkdown(d, c, FALSE), <<>>)

\* processBlockContent over the child nodes kids still to visit, with the
\* content and the currentLine built so far
processBlockContent(d, kids, content, currentLine) ==
    LET flushed == IF currentLine # <<>> THEN content \o currentLine \o <<"\n">>
                   ELSE content
    IN  IF kids = <<>> THEN flushed
        ELSE LET c == Head(kids)
             IN  IF d[c].kind = "text"
                 THEN processBlockContent(d, Tail(kids), content,
                                          currentLine \o d[c].text)
                 ELSE IF isInlineElement(d[c])
                 THEN processBlockContent(d, Tail(kids), content,
                          currentLine \o convertToMarkdown(d, c, TRUE))
                 ELSE processBlockContent(d, Tail(kids),
                          flushed \o convertToMarkdown(d, c, FALSE), <<>>)

\* convertToMarkdown(element, isInline) for element el of tree d
convertToMarkdown(d, el, isInline) ==
    LET n == d[el]
        Inline(e) == processInlineContent(d, e)
        Block(e) == processBlockContent(d, ChildNodes(d, e), <<>>, <<>>)
        Row(cells) == <<"|", " ">>
                      \o JoinWith([k \in 1..Len(cells) |-> cells[k]], <<" ", "|", " ">>)
                      \o <<" ", "|", "\n">>
        Cells(cs) == [k \in 1..Len(cs) |-> Inline(cs[k])]
        OfTemp(temp) == IF temp = <<>> THEN <<Raised>>
                        ELSE Trim(TextContent(temp[1], 1))
        Code(lines) ==
            IF lines # <<>> THEN CodeLinesText(d, lines)
            ELSE IF QuerySelectorAll(d, el, CodeGutterSelectors) # <<>>
            THEN OfTemp(TempContainer(d, el))
            ELSE Trim(TextContent(d, el))
        Marked(mark) ==
            mark \o Inline(el) \o mark \o (IF isInline THEN <<>> ELSE <<"\n">>)
        Link(href, text) ==
            <<"[">> \o (IF text # <<>> THEN text ELSE href) \o <<"]", "(">>
            \o href \o <<")">>
        Image(src) ==
            IF StartsWith(src, <<"d","a","t","a",":","i","m","a","g","e">>)
            THEN <<>>
            ELSE <<"!", "[">> \o GetAttr(n, "alt") \o <<"]", "(">> \o src
                 \o <<")">>
        CodeOf(codeElement) ==
            Fence(LanguageOf(GetAttr(d[codeElement], "class")),
                  Trim(TextContent(d, codeElement)))
        Pre(codeElement) ==
            IF codeElement # 0 THEN CodeOf(codeElement)
            ELSE IF PreGutterElements(d, el) # <<>>
            THEN Fence(<<>>, OfTemp(TempContainer(d, el)))
            ELSE Fence(<<>>, Trim(TextContent(d, el)))
        CodeTable(codeElement) ==
            IF ~ClassNameIsString(d[codeElement]) THEN <<Raised>>
            ELSE CodeOf(codeElement)
        Table(head, rows) ==
            (IF head # <<>>
             THEN Row(Cells(head))
                  \o Row([k \in 1..Len(head) |-> <<"-", "-", "-">>])
             ELSE <<>>)
            \o Flatten([k \in 1..Len(rows) |->
                   IF rows[k] # <<>> THEN Row(Cells(rows[k])) ELSE <<>>])
            \o <<"\n">>
        Items(items) ==
            Flatten([k \in 1..Len(items) |->
                (IF n.tag = "UL" THEN <<"-", " ">>
                 ELSE NumberString(k) \o <<".", " ">>)
                \o Inline(items[k]) \o <<"\n">>]) \o <<"\n">>
        Of(b) ==
            CASE b = "heading" ->
                    RepeatHash(HeadingLevel(n)) \o <<" ">> \o Inline(el)
                    \o <<"\n", "\n">>
              [] b \in {"quote", "blockquote"} ->
                    QuoteLines(Block(el)) \o <<"\n", "\n">>
              [] b = "code" ->
                    Fence(IF GetAttr(n, "data-language") # <<>>
                          THEN GetAttr(n, "data-language")
                          ELSE LanguageOf(GetAttr(n, "class")),
                          Trim(Code(QuerySelectorAll(d, el, {AttrSel("data-type", "=",
                                     <<"c","o","d","e","-","l","i","n","e">>)}))))
              [] b = "bullet-list" ->
                    ListLines(TextContent(d, el), FALSE) \o <<"\n", "\n">>
              [] b = "numbered-list" ->
                    ListLines(TextContent(d, el), TRUE) \o <<"\n", "\n">>
              [] b = "paragraph" -> IF isInline THEN Inline(el) ELSE Block(el)
              [] b = "inline" ->
                    Marked(CASE n.tag \in {"STRONG", "B"} -> <<"*", "*">>
                             [] n.tag \in {"EM", "I"} -> <<"*">>
                             [] n.tag = "CODE" -> <<Backtick>>
                             [] n.tag = "DEL" -> <<"~", "~">>
                             [] n.tag \in {"INS", "U"} -> <<"_", "_">>
                             [] OTHER -> <<>>)
              [] b = "br" -> IF isInline THEN <<"\n">> ELSE <<"\n", "\n">>
              [] b = "list" -> Items(QuerySelectorAll(d, el, {TagSel("LI")}))
              [] b = "a" -> Link(GetAttr(n, "href"), Inline(el))
              [] b = "img" -> Image(GetAttr(n, "src"))
              [] b = "pre" -> Pre(QuerySelector(d, el, {TagSel("CODE")}))
              [] b = "table-code" ->
                    CodeTable(QuerySelector(d, el,
                        {ClsSel(<<"c","o","d","e">>),
                         AttrSel("class", "*=", <<"c","o","d","e">>)}))
              [] b = "table" -> Table(TableHeaderCells(d, el), TableRows(d, el))
              [] OTHER -> Block(el)
    IN  Of(Branch(d, el))

----------------------------------------------------------------------------
(* The metadata reader *)

\* undefined, and a string that is there
Undefined == [defined |-> FALSE, value |-> <<>>]

StringValue(s) == [defined |-> TRUE, value |-> s]

\* meta[name="..."], meta[property="..."]
MetaSelector(name) ==
    {Sel("META", {}, <<>>, {<<"name", "=", name>>}),
     Sel("META", {}, <<>>, {<<"property", "=", name>>})}

\* getMetaContent with content || '' in place of content || undefined
getMetaContentOrEmpty(head, live, name) ==
    StringValue(
        IF QuerySelector(head, 0, MetaSelector(name)) # 0
        THEN GetAttr(head[QuerySelector(head, 0, MetaSelector(name))], "content")
        ELSE IF QuerySelector(live, 0, MetaSelector(name)) # 0
        THEN GetAttr(live[QuerySelector(live, 0, MetaSelector(name))], "content")
        ELSE <<>>)

\* getMetaContent: document.querySelector finds the first meta element of
\* the document, in the head or else in the body; content || undefined
getMetaContent(head, live, name) ==
    LET Content(content) ==
            IF content = <<>> THEN Undefined ELSE StringValue(content)
        Of(inHead, inBody) ==
            IF inHead # 0 THEN Content(GetAttr(head[inHead], "content"))
            ELSE IF inBody # 0 THEN Content(GetAttr(live[inBody], "content"))
            ELSE Undefined
    IN  Of(QuerySelector(head, 0, MetaSelector(name)),
           QuerySelector(live, 0, MetaSelector(name)))

\* keywords ? keywords.split(',').map(k => k.trim()) : undefined
KeywordList(keywords) ==
    IF keywords.defined
    THEN LET Trimmed(parts) == [k \in 1..Len(parts) |-> Trim(parts[k])]
         IN  [defined |-> TRUE, list |-> Trimmed(SplitAt(keywords.value, {","}, <<>>))]
    ELSE [defined |-> FALSE, list |-> <<>>]

\* the metadata of the PageContent
Metadata(head, live) ==
    [description |-> getMetaContent(head, live,
                        <<"d","e","s","c","r","i","p","t","i","o","n">>),
     keywords |-> KeywordList(getMetaContent(head, live,
                        <<"k","e","y","w","o","r","d","s">>)),
     author |-> getMetaContent(head, live, <<"a","u","t","h","o","r">>),
     publishedTime |-> getMetaContent(head, live,
                        <<"a","r","t","i","c","l","e",":","p","u","b","l","i",
                          "s","h","e","d","_","t","i","m","e">>)]

\* the metadata of a call that returned nothing
NoMetadata ==
    [description |-> Undefined,
     keywords |-> [defined |-> FALSE, list |-> <<>>],
     author |-> Undefined,
     publishedTime |-> Undefined]

----------------------------------------------------------------------------
(* The post-processing of the markdown and cleanText *)

\* replace that leaves the runs as they are
KeepRuns(s, cs, rep) == s

\* replace(/[cs]+/g, rep): every maximal run of characters of cs becomes rep
CollapseRuns(s, cs, rep) ==
    LET Keep(i) == ~(s[i] \in cs /\ i > 1 /\ s[i - 1] \in cs)
        idx == SelectSeq([i \in 1..Len(s) |-> i], Keep)
    IN  [k \in 1..Len(idx) |-> IF s[idx[k]] \in cs THEN rep ELSE s[idx[k]]]

\* replace(/\n{3,}/g, '\n\n'): the third and later newline of a run go
CollapseNewlines(s) ==
    LET Keep(i) == ~(s[i] = "\n" /\ i > 2 /\ s[i - 1] = "\n" /\ s[i - 2] = "\n")
    IN  SelectSeq([i \in 1..Len(s) |-> i], Keep)

RECURSIVE RunStart(_, _)
\* first index of the maximal run of white space that holds index i
RunStart(s, i) ==
    IF i > 1 /\ s[i - 1] \in WhiteSpace THEN RunStart(s, i - 1) ELSE i

RECURSIVE RunEnd(_, _)
RunEnd(s, i) ==
    IF i < Len(s) /\ s[i + 1] \in WhiteSpace THEN RunEnd(s, i + 1) ELSE i

\* replace(/\n\s*\n/g, '\n\n'): in a run of white space with two or more
\* newlines, what lies between its first and its last newline goes
CollapseBlankLines(s) ==
    LET Newlines(i) == {j \in RunStart(s, i)..RunEnd(s, i) : s[j] = "\n"}
        Keep(i) == \/ s[i] \notin WhiteSpace
                   \/ Newlines(i) = {}
                   \/ \A j \in Newlines(i) : i <= j
                   \/ \A j \in Newlines(i) : i >= j
    IN  SelectSeq([i \in 1..Len(s) |-> i], Keep)

\* replace(/(\n\s*){3,}/g, '\n\n'): a run of white space with three or more
\* newlines becomes, from its first newline on, two newlines
CollapseManyBreaks(s) ==
    LET Newlines(i) == {j \in RunStart(s, i)..RunEnd(s, i) : s[j] = "\n"}
        First(i) == CHOOSE j \in Newlines(i) : \A h \in Newlines(i) : j <= h
        Hit(i) == s[i] \in WhiteSpace /\ Cardinality(Newlines(i)) >= 3
                  /\ i >= First(i)
        Keep(i) == ~Hit(i) \/ i <= First(i) + 1
        idx == SelectSeq([i \in 1..Len(s) |-> i], Keep)
    IN  [k \in 1..Len(idx) |-> IF Hit(idx[k]) THEN "\n" ELSE s[idx[k]]]

\* the chain of replaces and the trim applied to convertToMarkdown's result
PostProcess(md) ==
    LET a == [k \in 1..Len(CollapseNewlines(md)) |-> md[CollapseNewlines(md)[k]]]
        b == CollapseRuns(a, {" ", "\t"}, " ")
        c == [k \in 1..Len(CollapseBlankLines(b)) |-> b[CollapseBlankLines(b)[k]]]
    IN  Trim(CollapseManyBreaks(c))

\* cleanText without .replace(/\s+/g, ' ')
cleanTextNoCollapse(text) ==
    Trim(Trim(CollapseRuns(text, {"\n", "\r"}, "\n")))

\* cleanText
cleanText(text) ==
    Trim(Trim(CollapseRuns(CollapseRuns(text, {"\n", "\r"}, "\n"), WhiteSpace, " ")))

----------------------------------------------------------------------------
(* The pages *)

MaxBlocks == 2

MaxRuns == 2

\* n characters of prose: words of five letters
Filler(n) == [i \in 1..n |-> IF i % 6 = 0 THEN " " ELSE "x"]

\* a block: a subtree given as nodes whose parent is relative to the block
\* (0 is the element the block is put under)
Leaf(tag, attrs, text) == <<Elem(0, "html", tag, attrs), Text(1, text)>>

S_Hi == <<"H","i">>

\* the blocks a page of the locator family is made of
LocatorBlocks ==
    {Leaf("MAIN", {}, Filler(120)),
     Leaf("ARTICLE", {}, S_Hi),
     Leaf("DIV", {}, Filler(250)),
     Leaf("DIV", {<<"class", <<"a","r","t","i","c","l","e","-","c","o","n","t","e","n","t">>>>},
          Filler(130)),
     Leaf("DIV", {<<"id", <<"c","o","n","t","e","n","t">>>>}, Filler(110)),
     Leaf("SECTION", {}, S_Hi),
     Leaf("NAV", {}, S_Hi),
     Leaf("P", {}, S_Hi),
     <<Elem(0, "svg", "svg", {<<"id", <<"c","o","n","t","e","n","t">>>>})>>,
     <<Elem(0, "html", "NAV", {}),
       Elem(1, "html", "DIV", {<<"class", <<"a","r","t","i","c","l","e","-","c","o","n","t","e","n","t">>>>}),
       Text(2, Filler(140))>>,
     <<Elem(0, "html", "DIV", {<<"class", <<"a","r","t","i","c","l","e","-","c","o","n","t","e","n","t">>>>}),
       Elem(1, "html", "PRE", {}),
       Elem(2, "html", "SPAN", {<<"class", <<"g","u","t","t","e","r">>>>}),
       Text(3, <<"1">>),
       Text(2, Filler(115))>>}

\* the blocks a page of the serializer family is made of
MdBlocks ==
    \* <h1>Hello <em>world</em></h1>
    {<<Elem(0, "html", "H1", {}),
       Text(1, <<"H","e","l","l","o"," ">>),
       Elem(1, "html", "EM", {}),
       Text(3, <<"w","o","r","l","d">>)>>,
    \* <h2>Title</h2>
     <<Elem(0, "html", "H2", {}),
       Text(1, <<"T","i","t","l","e">>)>>,
    \* <p>Hello <strong>big</strong> world.</p>
     <<Elem(0, "html", "P", {}),
       Text(1, <<"H","e","l","l","o"," ">>),
       Elem(1, "html", "STRONG", {}),
       Text(3, <<"b","i","g">>),
       Text(1, <<" ","w","o","r","l","d",".">>)>>,
    \* <ul><li><h3>T</h3></li></ul>
     <<Elem(0, "html", "UL", {}),
       Elem(1, "html", "LI", {}),
       Elem(2, "html", "H3", {}),
       Text(3, <<"T">>)>>,
    \* <ol><li>one</li><li>two</li></ol>
     <<Elem(0, "html", "OL", {}),
       Elem(1, "html", "LI", {}),
       Text(2, <<"o","n","e">>),
       Elem(1, "html", "LI", {}),
       Text(4, <<"t","w","o">>)>>,
    \* <table><tr><td>a</td><td>b</td></tr></table>
     <<Elem(0, "html", "TABLE", {}),
       Elem(1, "html", "TR", {}),
       Elem(2, "html", "TD", {}),
       Text(3, <<"a">>),
       Elem(2, "html", "TD", {}),
       Text(5, <<"b">>)>>,
    \* <table><tr><th>A</th></tr><tr><td>1</td></tr></table>
     <<Elem(0, "html", "TABLE", {}),
       Elem(1, "html", "TR", {}),
       Elem(2, "html", "TH", {}),
       Text(3, <<"A">>),
       Elem(1, "html", "TR", {}),
       Elem(5, "html", "TD", {}),
       Text(6, <<"1">>)>>,
    \* <table><tr><td><table><tr><td>x</td></tr></table></td></tr></table>
     <<Elem(0, "html", "TABLE", {}),
       Elem(1, "html", "TR", {}),
       Elem(2, "html", "TD", {}),
       Elem(3, "html", "TABLE", {}),
       Elem(4, "html", "TR", {}),
       Elem(5, "html", "TD", {}),
       Text(6, <<"x">>)>>,
    \* <nav>menu</nav>
     <<Elem(0, "html", "NAV", {}),
       Text(1, <<"m","e","n","u">>)>>,
    \* <pre><span class="gutter">1</span>code</pre>
     <<Elem(0, "html", "PRE", {}),
       Elem(1, "html", "SPAN", {<<"class", <<"g","u","t","t","e","r">>>>}),
       Text(2, <<"1">>),
       Text(1, <<"c","o","d","e">>)>>,
    \* <div data-type="code"><span class="gutter">1</span>x = 1</div>
     <<Elem(0, "html", "DIV", {<<"data-type", <<"c","o","d","e">>>>}),
       Elem(1, "html", "SPAN", {<<"class", <<"g","u","t","t","e","r">>>>}),
       Text(2, <<"1">>),
       Text(1, <<"x"," ","="," ","1">>)>>,
    \* the text " a \n\n b\t"
     <<Text(0, <<" ","a"," ","\n","\n"," ","b","\t">>)>>}

\* the page whose body holds the blocks bs, one after the other
RECURSIVE Body(_, _)
Body(bs, doc) ==
    IF bs = <<>> THEN doc
    ELSE LET b == Head(bs)
             off == Len(doc)
         IN  Body(Tail(bs),
                  doc \o [k \in 1..Len(b) |->
                            [b[k] EXCEPT !.parent = IF @ = 0 THEN 1 ELSE @ + off]])

\* the sequences of at most n elements of S
RECURSIVE SeqsUpTo(_, _)
SeqsUpTo(S, n) ==
    IF n = 0 THEN {<<>>}
    ELSE LET shorter == SeqsUpTo(S, n - 1)
         IN  shorter \cup {Append(q, x) : q \in shorter, x \in S}

Pages(blocks) ==
    {Body(bs, <<Elem(0, "html", "BODY", {})>>) : bs \in SeqsUpTo(blocks, MaxBlocks)}

Hrefs ==
    {<<"h","t","t","p","s",":","/","/","e","x","a","m","p","l","e",".","o","r","g","/">>}

----------------------------------------------------------------------------
(* readPageFromTab *)

\* 'script', 'style', ... : elementsToRemove, as tag names
elementsToRemove ==
    <<"SCRIPT", "STYLE", "IFRAME", "NAV", "HEADER", "FOOTER", "NOSCRIPT",
      "FORM", "BUTTON", "INPUT", "SELECT", "TEXTAREA">>

\* what chrome.tabs.query may resolve with: null, no tab, a tab without an
\* id, a tab with an id
TabResults ==
    {[isNull |-> TRUE, list |-> <<>>],
     [isNull |-> FALSE, list |-> <<>>],
     [isNull |-> FALSE, list |-> <<[id |-> 0]>>],
     [isNull |-> FALSE, list |-> <<[id |-> 7]>>]}

\* !tabs || !tabs[0]?.id
NoTabId(t) == t.isNull \/ t.list = <<>> \/ t.list[1].id = 0

NoTabs == [isNull |-> TRUE, list |-> <<>>]

NoResult ==
    [content |-> <<>>, markdown |-> <<>>, metadata |-> NoMetadata,
     defined |-> FALSE]

\* ---- ChatHistoryService: the stored sessions and the calls in flight ----

\* the sessions one execution creates
MaxSessions == 2

\* the messages one session grows to
MaxMessages == 1

\* the callers whose ChatHistoryService calls are in flight at once
MaxCallers == 2

SessionIds == 1..MaxSessions

Callers == 1..MaxCallers

\* the models a session is created with or updated to
Models == {"m1", "m2"}

\* what chrome.storage.local.get yields for a session key that is not stored
NoSession == [id |-> 0, messages |-> <<>>, model |-> "none"]

\* chrome.storage.local before any session is saved: no sessions index
\* (read as { sessions: [] }) and no session data
NoStorage == [index |-> <<>>, data |-> [id \in SessionIds |-> NoSession]]

\* a caller that is in no ChatHistoryService call
IdleTask ==
    [op |-> "idle", pc |-> "idle", sessionId |-> 0, session |-> NoSession,
     index |-> <<>>]

NoTasks == [c \in Callers |-> IdleTask]

\* a call starts on a page: a body of pages under a head of heads
InitOfHead(pages, heads) ==
    /\ pc = "start"
    /\ \E page \in pages : \E h \in heads :
          trees = [live |-> page, copy |-> <<>>, temp |-> <<>>, head |-> h]
    /\ url \in Hrefs
    /\ removed = {}
    /\ tabs = NoTabs
    /\ tagIdx = 1
    /\ mainContent = Null
    /\ target = Null
    /\ thrown = FALSE
    /\ result = NoResult
    /\ results = <<>>
    /\ outcome = "pending"
    /\ calls = <<>>
    /\ run = 1
    /\ prev = <<>>
    /\ storage = NoStorage
    /\ tasks = NoTasks
    /\ now = 1

\* a call starts on a page whose head holds no element
InitOf(pages) == InitOfHead(pages, {<<Elem(0, "html", "HEAD", {})>>})

Init == InitOf(Pages(LocatorBlocks))

InitMd == InitOf(Pages(MdBlocks))

\* the pages readPageFromTab is called on more than once: a semantic
\* element, a scored candidate, a stripped element, a platform element with
\* a gutter, an SVG candidate
TwiceBlocks ==
    {b \in LocatorBlocks :
        \/ b[1].tag \in {"MAIN", "svg"}
        \/ b[1].tag = "NAV" /\ Len(b) = 2
        \/ b[1].tag = "DIV" /\ b[1].attrs = {}
        \/ Len(b) = 5}

InitTwice == InitOf(Pages(TwiceBlocks))

\* the blocks a page of the image family is made of
ImgBlocks ==
    \* <p>See<img src="data:image/png" alt="x"><img src="a.png?data:image" alt="pic"></p>
    {<<Elem(0, "html", "P", {}),
       Text(1, <<"S","e","e">>),
       Elem(1, "html", "IMG", {<<"src", <<"d","a","t","a",":","i","m","a","g","e","/","p","n","g">>>>, <<"alt", <<"x">>>>}),
       Elem(1, "html", "IMG", {<<"src", <<"a",".","p","n","g","?","d","a","t","a",":","i","m","a","g","e">>>>, <<"alt", <<"p","i","c">>>>})>>,
    \* <h2>T<img src="data:image/png" alt="x"><img src="a.png?data:image" alt="pic"></h2>
     <<Elem(0, "html", "H2", {}),
       Text(1, <<"T">>),
       Elem(1, "html", "IMG", {<<"src", <<"d","a","t","a",":","i","m","a","g","e","/","p","n","g">>>>, <<"alt", <<"x">>>>}),
       Elem(1, "html", "IMG", {<<"src", <<"a",".","p","n","g","?","d","a","t","a",":","i","m","a","g","e">>>>, <<"alt", <<"p","i","c">>>>})>>,
    \* <img alt="pic">
     <<Elem(0, "html", "IMG", {<<"alt", <<"p","i","c">>>>})>>,
    \* <nav>menu</nav>
     <<Elem(0, "html", "NAV", {}),
       Text(1, <<"m","e","n","u">>)>>}

MaxText == 4

\* the characters of the texts of the text family
TextChars == {"a", " ", "\t", "\n"}

\* the texts of the text family: every text of at most MaxText characters,
\* and two longer ones with runs of newlines, blanks and carriage returns
Texts ==
    (SeqsUpTo(TextChars, MaxText) \ {<<>>})
    \cup {<<" ","a"," ","\t"," ","b","\n"," ","\n","\n","\t","c"," ">>,
          <<"a","\n","\r","\n","\r","\n"," "," ","b">>}

\* the pages of the text family: a body that holds one text, and one that
\* holds a nav element
TextPages ==
    {Body(<<<<Text(0, s)>>>>, <<Elem(0, "html", "BODY", {})>>) : s \in Texts}
    \cup {Body(<<Leaf("NAV", {}, S_Hi)>>, <<Elem(0, "html", "BODY", {})>>)}

\* the meta elements a head of the metadata family is made of
MetaBlocks ==
    \* <meta name="description" content="About x">
    {<<Elem(0, "html", "META", {<<"name", <<"d","e","s","c","r","i","p","t","i","o","n">>>>, <<"content", <<"A","b","o","u","t"," ","x">>>>})>>,
    \* <meta name="description" content="">
     <<Elem(0, "html", "META", {<<"name", <<"d","e","s","c","r","i","p","t","i","o","n">>>>, <<"content", <<>>>>})>>,
    \* <meta name="keywords" content=" a, b c ,,d">
     <<Elem(0, "html", "META", {<<"name", <<"k","e","y","w","o","r","d","s">>>>, <<"content", <<" ","a",","," ","b"," ","c"," ",",",",","d">>>>})>>,
    \* <meta name="keywords" content="">
     <<Elem(0, "html", "META", {<<"name", <<"k","e","y","w","o","r","d","s">>>>, <<"content", <<>>>>})>>,
    \* <meta property="article:published_time" content="2024">
     <<Elem(0, "html", "META", {<<"property", <<"a","r","t","i","c","l","e",":","p","u","b","l","i","s","h","e","d","_","t","i","m","e">>>>, <<"content", <<"2","0","2","4">>>>})>>,
    \* <meta name="author">
     <<Elem(0, "html", "META", {<<"name", <<"a","u","t","h","o","r">>>>})>>,
    \* <meta property="author" content="Ann">
     <<Elem(0, "html", "META", {<<"property", <<"a","u","t","h","o","r">>>>, <<"content", <<"A","n","n">>>>})>>}

MaxMetas == 2

\* the heads of the metadata family
Heads ==
    {Body(bs, <<Elem(0, "html", "HEAD", {})>>) : bs \in SeqsUpTo(MetaBlocks, MaxMetas)}

\* the bodies of the metadata family: a paragraph, a nav element and a
\* paragraph, a meta element (author Bob) and a paragraph
MetaPages ==
    {Body(bs, <<Elem(0, "html", "BODY", {})>>) :
        bs \in {<<Leaf("P", {}, S_Hi)>>,
                <<Leaf("NAV", {}, S_Hi), Leaf("P", {}, S_Hi)>>,
                << <<Elem(0, "html", "META", {<<"name", <<"a","u","t","h","o","r">>>>, <<"content", <<"B","o","b">>>>})>>,
                   Leaf("P", {}, S_Hi)>>}}

\* the blocks a page of the ranking family is made of: semantic elements
\* and scored candidates of several lengths, an element a platform rule
\* selects (short, long), an article that scores high (long, short), a nav
\* element
RankBlocks ==
    {Leaf("MAIN", {}, Filler(119)),
     Leaf("ARTICLE", {<<"role", <<"a","r","t","i","c","l","e">>>>}, Filler(250)),
     Leaf("DIV", {<<"id", <<"c","o","n","t","e","n","t">>>>}, Filler(299)),
     Leaf("DIV", {<<"class", <<"d","o","c","x","-","p","a","g","e","-","b","l","o","c","k"," ","p","a","g","e","-","b","l","o","c","k","-","c","h","i","l","d","r","e","n">>>>}, Filler(10)),
     Leaf("DIV", {<<"class", <<"d","o","c","x","-","p","a","g","e","-","b","l","o","c","k"," ","p","a","g","e","-","b","l","o","c","k","-","c","h","i","l","d","r","e","n">>>>}, Filler(119)),
    \* <article role="main" class="content"><h1>Api</h1><h3>Overview</h3><p>227 characters</p></article>
     <<Elem(0, "html", "ARTICLE", {<<"role", <<"m","a","i","n">>>>, <<"class", <<"c","o","n","t","e","n","t">>>>}),
       Elem(1, "html", "H1", {}),
       Text(2, <<"A","p","i">>),
       Elem(1, "html", "H3", {}),
       Text(4, <<"O","v","e","r","v","i","e","w">>),
       Elem(1, "html", "P", {}),
       Text(6, Filler(227))>>,
    \* <article role="main" class="content"><h1>Api</h1><h3>Overview</h3><p>20 characters</p><ul><li>x</li></ul></article>
     <<Elem(0, "html", "ARTICLE", {<<"role", <<"m","a","i","n">>>>, <<"class", <<"c","o","n","t","e","n","t">>>>}),
       Elem(1, "html", "H1", {}),
       Text(2, <<"A","p","i">>),
       Elem(1, "html", "H3", {}),
       Text(4, <<"O","v","e","r","v","i","e","w">>),
       Elem(1, "html", "P", {}),
       Text(6, Filler(20)),
       Elem(1, "html", "UL", {}),
       Elem(8, "html", "LI", {}),
       Text(9, <<"x">>)>>,
     Leaf("NAV", {}, S_Hi)}

\* the pages of the ranking family: the bodies of at most MaxBlocks blocks,
\* and the body of a main element, an article and a div of growing lengths
RankPages ==
    Pages(RankBlocks)
    \cup {Body(<<Leaf("MAIN", {}, Filler(119)),
                 Leaf("ARTICLE", {<<"role", <<"a","r","t","i","c","l","e">>>>}, Filler(250)),
                 Leaf("DIV", {<<"id", <<"c","o","n","t","e","n","t">>>>}, Filler(299))>>,
               <<Elem(0, "html", "BODY", {})>>)}

\* the blocks a page of the heading family is made of
HeadingBlocks ==
    \* <div data-block-type="heading">T</div>
    {<<Elem(0, "html", "DIV", {<<"data-block-type", <<"h","e","a","d","i","n","g">>>>}),
       Text(1, <<"T">>)>>,
    \* <div data-block-type="heading2">T</div>
     <<Elem(0, "html", "DIV", {<<"data-block-type", <<"h","e","a","d","i","n","g","2">>>>}),
       Text(1, <<"T">>)>>,
    \* <div data-block-type="headingX">T</div>
     <<Elem(0, "html", "DIV", {<<"data-block-type", <<"h","e","a","d","i","n","g","X">>>>}),
       Text(1, <<"T">>)>>,
    \* <div data-block-type="heading0">T</div>
     <<Elem(0, "html", "DIV", {<<"data-block-type", <<"h","e","a","d","i","n","g","0">>>>}),
       Text(1, <<"T">>)>>,
    \* <div data-block-type="heading9">T</div>
     <<Elem(0, "html", "DIV", {<<"data-block-type", <<"h","e","a","d","i","n","g","9">>>>}),
       Text(1, <<"T">>)>>,
    \* <div data-block-type="heading-1">T</div>
     <<Elem(0, "html", "DIV", {<<"data-block-type", <<"h","e","a","d","i","n","g","-","1">>>>}),
       Text(1, <<"T">>)>>,
    \* <div data-type="h3">T</div>
     <<Elem(0, "html", "DIV", {<<"data-type", <<"h","3">>>>}),
       Text(1, <<"T">>)>>,
    \* <div data-type="H4">T</div>
     <<Elem(0, "html", "DIV", {<<"data-type", <<"H","4">>>>}),
       Text(1, <<"T">>)>>,
    \* <h5>T</h5>
     <<Elem(0, "html", "H5", {}),
       Text(1, <<"T">>)>>,
    \* <nav>menu</nav>
     <<Elem(0, "html", "NAV", {}),
       Text(1, <<"m","e","n","u">>)>>}

\* the blocks a page of the table family is made of
TableBlocks ==
    \* <table><tr><th>A</th><th>B</th></tr><tr><td>1</td><td>2</td></tr></table>
    {<<Elem(0, "html", "TABLE", {}),
       Elem(1, "html", "TR", {}),
       Elem(2, "html", "TH", {}),
       Text(3, <<"A">>),
       Elem(2, "html", "TH", {}),
       Text(5, <<"B">>),
       Elem(1, "html", "TR", {}),
       Elem(7, "html", "TD", {}),
       Text(8, <<"1">>),
       Elem(7, "html", "TD", {}),
       Text(10, <<"2">>)>>,
    \* <table><tr><td>a</td><td>b</td></tr><tr><td>1</td><td>2</td></tr></table>
     <<Elem(0, "html", "TABLE", {}),
       Elem(1, "html", "TR", {}),
       Elem(2, "html", "TD", {}),
       Text(3, <<"a">>),
       Elem(2, "html", "TD", {}),
       Text(5, <<"b">>),
       Elem(1, "html", "TR", {}),
       Elem(7, "html", "TD", {}),
       Text(8, <<"1">>),
       Elem(7, "html", "TD", {}),
       Text(10, <<"2">>)>>,
    \* <table><tr><th>A</th></tr><tr><td>1</td></tr><tr><td>2</td></tr></table>
     <<Elem(0, "html", "TABLE", {}),
       Elem(1, "html", "TR", {}),
       Elem(2, "html", "TH", {}),
       Text(3, <<"A">>),
       Elem(1, "html", "TR", {}),
       Elem(5, "html", "TD", {}),
       Text(6, <<"1">>),
       Elem(1, "html", "TR", {}),
       Elem(8, "html", "TD", {}),
       Text(9, <<"2">>)>>,
    \* <nav>menu</nav>
     <<Elem(0, "html", "NAV", {}),
       Text(1, <<"m","e","n","u">>)>>}

\* the blocks a page of the sentence family is made of: lists, paragraphs, a link
SentenceBlocks ==
    \* <ul><li>a<ul><li>b</li></ul></li></ul>
    {<<Elem(0, "html", "UL", {}),
       Elem(1, "html", "LI", {}),
       Text(2, <<"a">>),
       Elem(2, "html", "UL", {}),
       Elem(4, "html", "LI", {}),
       Text(5, <<"b">>)>>,
    \* <ol><li>one</li><li>two</li></ol>
     <<Elem(0, "html", "OL", {}),
       Elem(1, "html", "LI", {}),
       Text(2, <<"o","n","e">>),
       Elem(1, "html", "LI", {}),
       Text(4, <<"t","w","o">>)>>,
    \* <article><h1>Title</h1><p>Hello <strong>world</strong>.</p></article>
     <<Elem(0, "html", "ARTICLE", {}),
       Elem(1, "html", "H1", {}),
       Text(2, <<"T","i","t","l","e">>),
       Elem(1, "html", "P", {}),
       Text(4, <<"H","e","l","l","o"," ">>),
       Elem(4, "html", "STRONG", {}),
       Text(6, <<"w","o","r","l","d">>),
       Text(4, <<".">>)>>,
    \* <p>See <a href="u">link</a> now</p>
     <<Elem(0, "html", "P", {}),
       Text(1, <<"S","e","e"," ">>),
       Elem(1, "html", "A", {<<"href", <<"u">>>>}),
       Text(3, <<"l","i","n","k">>),
       Text(1, <<" ","n","o","w">>)>>,
    \* <p>Hello\nworld</p> (a line break in the text)
     <<Elem(0, "html", "P", {}),
       Text(1, <<"H","e","l","l","o","\n","w","o","r","l","d">>)>>,
    \* <p></p>
     <<Elem(0, "html", "P", {})>>,
    \* <nav>menu</nav>
     <<Elem(0, "html", "NAV", {}),
       Text(1, <<"m","e","n","u">>)>>}

\* const tabs = await chrome.tabs.query(...); without a tab id the call
\* throws, the catch rethrows: the promise is rejected
QueryTabs ==
    /\ pc = "start"
    /\ \E t \in TabResults :
          /\ tabs' = t
          /\ IF NoTabId(t)
             THEN pc' = "done" /\ outcome' = "rejected"
             ELSE pc' = "inject" /\ outcome' = outcome
    /\ UNCHANGED <<sessionVars, trees, removed, tagIdx, target, thrown, result, results,
                   url, calls, run, prev, mainContent>>

\* chrome.scripting.executeScript rejects (the page cannot be scripted)
ExecuteScriptFails ==
    /\ pc = "inject"
    /\ pc' = "done"
    /\ outcome' = "rejected"
    /\ UNCHANGED <<sessionVars, trees, removed, tabs, tagIdx, target, thrown, result,
                   results, url, calls, run, prev, mainContent>>

\* the injected function starts: contentContainer = document.body.cloneNode(true)
CloneBody ==
    /\ pc = "inject"
    /\ trees' = [trees EXCEPT !.copy = CloneNode(trees.live, 1)]
    /\ tagIdx' = 1
    /\ pc' = "strip"
    /\ UNCHANGED <<sessionVars, removed, tabs, target, thrown, result, results, outcome,
                   url, calls, run, prev, mainContent>>

\* the tags from tagIdx on of which contentContainer still holds an element
TagsLeft ==
    {k \in tagIdx..Len(elementsToRemove) :
        GetElementsByTagName(trees.copy, 1, elementsToRemove[k]) # <<>>}

\* the strip loop run on document.body itself (no cloneNode): the element is
\* removed from the page
StripStepOnDocument ==
    /\ pc = "strip"
    /\ TagsLeft # {}
    /\ \E k \in {CHOOSE t \in TagsLeft : \A u \in TagsLeft : t <= u} :
       \E e \in {GetElementsByTagName(trees.copy, 1, elementsToRemove[k])[1]} :
           /\ trees' = [trees EXCEPT !.copy = RemoveSubtree(@, e),
                                     !.live = RemoveSubtree(@, e)]
           /\ tagIdx' = k
    /\ removed' = removed \cup {"copy", "live"}
    /\ UNCHANGED <<sessionVars, pc, tabs, target, thrown, result, results, outcome, url,
                   calls, run, prev, mainContent>>

\* the strip loop unwrapping the element (its children are kept in its
\* place) instead of removing its subtree
StripStepUnwrap ==
    /\ pc = "strip"
    /\ TagsLeft # {}
    /\ \E k \in {CHOOSE t \in TagsLeft : \A u \in TagsLeft : t <= u} :
       \E e \in {GetElementsByTagName(trees.copy, 1, elementsToRemove[k])[1]} :
       \E d \in {trees.copy} :
           /\ trees' = [trees EXCEPT !.copy =
                  [j \in 1..(Len(d) - 1) |->
                      LET nd == d[IF j < e THEN j ELSE j + 1]
                      IN  [nd EXCEPT !.parent =
                              IF @ = e THEN d[e].parent
                              ELSE IF @ > e THEN @ - 1 ELSE @]]]
           /\ tagIdx' = k
    /\ removed' = removed \cup {"copy"}
    /\ UNCHANGED <<sessionVars, pc, tabs, target, thrown, result, results, outcome, url,
                   calls, run, prev, mainContent>>

\* the strip loop with an if in place of the while: the first element of
\* the tag is removed and the forEach goes on to the next tag
StripStepOnce ==
    /\ pc = "strip"
    /\ TagsLeft # {}
    /\ \E k \in {CHOOSE t \in TagsLeft : \A u \in TagsLeft : t <= u} :
       \E e \in {GetElementsByTagName(trees.copy, 1, elementsToRemove[k])[1]} :
           /\ trees' = [trees EXCEPT !.copy = RemoveSubtree(@, e)]
           /\ tagIdx' = k + 1
    /\ removed' = removed \cup {"copy"}
    /\ UNCHANGED <<sessionVars, pc, tabs, target, thrown, result, results, outcome, url,
                   calls, run, prev, mainContent>>

\* the strip loop over a collection that does not shrink (a static list
\* whose first element is detached already): nothing is removed
StripStepStatic ==
    /\ pc = "strip"
    /\ TagsLeft # {}
    /\ tagIdx' = CHOOSE t \in TagsLeft : \A u \in TagsLeft : t <= u
    /\ UNCHANGED <<sessionVars, pc, trees, removed, tabs, target, thrown, result, results,
                   outcome, url, calls, run, prev, mainContent>>

\* one turn of while (elements.length > 0)
\* elements[0].parentNode?.removeChild(elements[0]), for the next tag of the
\* forEach that has an element
StripStep ==
    /\ pc = "strip"
    /\ TagsLeft # {}
    /\ LET k == CHOOSE t \in TagsLeft : \A u \in TagsLeft : t <= u
           elements == GetElementsByTagName(trees.copy, 1, elementsToRemove[k])
       IN  /\ trees' = [trees EXCEPT !.copy = RemoveSubtree(@, elements[1])]
           /\ tagIdx' = k
    /\ removed' = removed \cup {"copy"}
    /\ UNCHANGED <<sessionVars, pc, tabs, target, thrown, result, results, outcome, url,
                   calls, run, prev, mainContent>>

\* the forEach over elementsToRemove ends
StripDone ==
    /\ pc = "strip"
    /\ TagsLeft = {}
    /\ pc' = "locate"
    /\ tagIdx' = Len(elementsToRemove) + 1
    /\ UNCHANGED <<sessionVars, trees, removed, tabs, target, thrown, result, results,
                   outcome, url, calls, run, prev, mainContent>>

\* const mainContent = findMainContent(); targetElement = mainContent ||
\* contentContainer; an exception leaves the injected function
FindMainContent ==
    /\ pc = "locate"
    /\ IF findMainContentThrows(trees.copy)
       THEN /\ thrown' = TRUE
            /\ pc' = "returned"
            /\ UNCHANGED <<mainContent, target, calls>>
       ELSE \E found \in {findMainContent(trees.live, trees.copy, url)} :
            \E targetElement \in {IF found # Null THEN found ELSE Ref("copy", 1)} :
                /\ mainContent' = found
                /\ target' = targetElement
                /\ calls' = <<Call(targetElement.idx, FALSE)>>
                /\ pc' = "convert"
                /\ thrown' = thrown
    /\ UNCHANGED <<sessionVars, trees, removed, tabs, tagIdx, result, results, outcome,
                   url, run, prev>>

\* the call on top of the stack raises by itself: a gutter selector that is
\* no selector, or the className of an SVG element used as a string
CallRaises(d, el) ==
    LET Of(b, temp) ==
            \/ /\ b = "code"
               /\ QuerySelectorAll(d, el, {AttrSel("data-type", "=",
                      <<"c","o","d","e","-","l","i","n","e">>)}) = <<>>
               /\ QuerySelectorAll(d, el, CodeGutterSelectors) # <<>>
               /\ temp = <<>>
            \/ /\ b = "pre"
               /\ QuerySelector(d, el, {TagSel("CODE")}) = 0
               /\ PreGutterElements(d, el) # <<>>
               /\ temp = <<>>
            \/ /\ b = "table-code"
               /\ ~ClassNameIsString(d[QuerySelector(d, el,
                      {ClsSel(<<"c","o","d","e">>),
                       AttrSel("class", "*=", <<"c","o","d","e">>)})])
    IN  Of(Branch(d, el), TempContainer(d, el))

\* one call of convertToMarkdown is entered: the calls it makes are pushed (a
\* heading is pushed again, to repeat its '#' after its inline content); its
\* gutter removal acts on tempContainer
ConvertStep ==
    /\ pc = "convert"
    /\ calls # <<>>
    /\ \E c \in {Head(calls)} :
       \E d \in {trees[target.tree]} :
          IF c.after
          THEN IF RepeatHash(HeadingLevel(d[c.el])) = <<Raised>>
               THEN /\ thrown' = TRUE /\ pc' = "returned" /\ calls' = <<>>
                    /\ UNCHANGED <<trees, removed>>
               ELSE /\ calls' = Tail(calls)
                    /\ UNCHANGED <<trees, removed, thrown, pc>>
          ELSE IF CallRaises(d, c.el)
          THEN /\ thrown' = TRUE /\ pc' = "returned" /\ calls' = <<>>
               /\ UNCHANGED <<trees, removed>>
          ELSE /\ calls' = Calls(d, c.el, c.isInline)
                           \o (IF IsHeadingElement(d[c.el])
                               THEN <<AfterInline(c.el)>> ELSE <<>>)
                           \o Tail(calls)
               /\ \E temp \in {TempContainer(d, c.el)} :
                     IF temp # <<>>
                     THEN /\ trees' = [trees EXCEPT !.temp = temp[1]]
                          /\ removed' = removed \cup {"temp"}
                     ELSE UNCHANGED <<trees, removed>>
               /\ UNCHANGED <<thrown, pc>>
    /\ UNCHANGED <<sessionVars, tabs, tagIdx, target, result, results, outcome, url, run,
                   prev, mainContent>>

\* the markdown kept in a variable that outlives the call: every call
\* appends to what the calls before it wrote
ExtractAppending ==
    /\ pc = "convert"
    /\ calls = <<>>
    /\ \E d \in {trees[target.tree]} :
          result' = [content |-> cleanText(TextContent(d, target.idx)),
                     metadata |-> Metadata(trees.head, trees.live),
                     markdown |->
                         (IF prev # <<>> THEN prev[Len(prev)].result.markdown
                          ELSE <<>>)
                         \o PostProcess(convertToMarkdown(d, target.idx, FALSE)),
                     defined |-> TRUE]
    /\ pc' = "returned"
    /\ UNCHANGED <<sessionVars, trees, removed, tabs, tagIdx, target, thrown, results,
                   outcome, url, calls, run, prev, mainContent>>

\* convertToMarkdown(targetElement) has returned: the markdown is
\* post-processed, the content is cleanText(targetElement.textContent)
Extract ==
    /\ pc = "convert"
    /\ calls = <<>>
    /\ LET d == trees[target.tree]
       IN  result' = [content |-> cleanText(TextContent(d, target.idx)),
                      markdown |-> PostProcess(convertToMarkdown(d, target.idx, FALSE)),
                      metadata |-> Metadata(trees.head, trees.live),
                      defined |-> TRUE]
    /\ pc' = "returned"
    /\ UNCHANGED <<sessionVars, trees, removed, tabs, tagIdx, target, thrown, results,
                   outcome, url, calls, run, prev, mainContent>>

\* readPageFromTab without the check of results: whatever executeScript
\* resolved with is returned
ReturnResultsUnchecked ==
    /\ pc = "returned"
    /\ \E rs \in {<<>>, <<NoResult>>, <<result>>} :
          /\ thrown => rs # <<result>> \/ ~result.defined
          /\ results' = rs
    /\ outcome' = "resolved"
    /\ pc' = "done"
    /\ UNCHANGED <<sessionVars, trees, removed, tabs, tagIdx, target, thrown, result, url,
                   calls, run, prev, mainContent>>

\* executeScript resolves: with no entry, with an entry without a result
\* (always so when the injected function raised) or with the PageContent;
\* readPageFromTab throws unless results[0].result is there
ReturnResults ==
    /\ pc = "returned"
    /\ \E rs \in {<<>>, <<NoResult>>, <<result>>} :
          /\ thrown => rs # <<result>> \/ ~result.defined
          /\ results' = rs
          /\ outcome' = IF rs = <<>> \/ ~rs[1].defined THEN "rejected"
                        ELSE "resolved"
    /\ pc' = "done"
    /\ UNCHANGED <<sessionVars, trees, removed, tabs, tagIdx, target, thrown, result, url,
                   calls, run, prev, mainContent>>

Next ==
    \/ QueryTabs
    \/ ExecuteScriptFails
    \/ CloneBody
    \/ StripStep
    \/ StripDone
    \/ FindMainContent
    \/ ConvertStep
    \/ Extract
    \/ ReturnResults

Spec == Init /\ [][Next]_vars

\* the pages of the serializer family
SpecMd == InitMd /\ [][Next]_vars

\* the caller calls readPageFromTab again, on the same page: the locals of
\* the call that ended are gone, what it settled with is kept in prev
CallAgain ==
    /\ pc = "done"
    /\ run < MaxRuns
    /\ prev' = Append(prev, [mainContent |-> mainContent, target |-> target,
                             thrown |-> thrown, result |-> result])
    /\ run' = run + 1
    /\ pc' = "start"
    /\ trees' = [trees EXCEPT !.copy = <<>>, !.temp = <<>>]
    /\ removed' = {}
    /\ tabs' = NoTabs
    /\ tagIdx' = 1
    /\ mainContent' = Null
    /\ target' = Null
    /\ thrown' = FALSE
    /\ result' = NoResult
    /\ results' = <<>>
    /\ outcome' = "pending"
    /\ calls' = <<>>
    /\ UNCHANGED <<sessionVars, url>>

NextTwice ==
    \/ Next
    \/ CallAgain

\* readPageFromTab called up to MaxRuns times on one page
SpecTwice == InitTwice /\ [][NextTwice]_vars

\* the pages of the image family
SpecImg == InitOf(Pages(ImgBlocks)) /\ [][Next]_vars

\* the pages of the text family
SpecText == InitOf(TextPages) /\ [][Next]_vars

\* the pages of the metadata family
SpecMeta == InitOfHead(MetaPages, Heads) /\ [][Next]_vars

SpecRank == InitOf(RankPages) /\ [][Next]_vars

SpecHeading == InitOf(Pages(HeadingBlocks)) /\ [][Next]_vars

SpecTable == InitOf(Pages(TableBlocks)) /\ [][Next]_vars

SpecSentence == InitOf(Pages(SentenceBlocks)) /\ [][Next]_vars

----------------------------------------------------------------------------
(* Properties *)

\* findMainContent has been called in the current call of readPageFromTab
Located == pc \in {"convert", "returned", "done"} /\ tagIdx > Len(elementsToRemove)

\* the tree and the element the markdown and the content are made from
TargetTree == trees[target.tree]

\* the markdown and the content have been made
Extracted == pc \in {"returned", "done"} /\ result.defined

\* the lines of the markdown
MarkdownLines == SplitLines(result.markdown)

\* the characters of s that are no white space
NonWs(s) == LET Keep(c) == c \notin WhiteSpace IN SelectSeq(s, Keep)

\* the word boundaries of s: for every white space character between two
\* words, the number of characters of the words before it
Boundaries(s) ==
    {Len(NonWs(SubSeq(s, 1, i))) : i \in {j \in 1..Len(s) : s[j] \in WhiteSpace}}
        \ {0, Len(NonWs(s))}

\* a line of Markdown without its list marker and its heading marker
StripPrefix(line) ==
    LET NoItem(l) == IF StartsWith(l, <<"-", " ">>) THEN SubSeq(l, 3, Len(l))
                     ELSE IF Len(l) >= 3 /\ IsDigit(l[1]) /\ l[2] = "." /\ l[3] = " "
                     THEN SubSeq(l, 4, Len(l))
                     ELSE l
        Hashes(l) == CHOOSE n \in 0..Len(l) :
                        /\ \A k \in 1..n : l[k] = "#"
                        /\ n < Len(l) => l[n + 1] # "#"
        NoHeading(l) == IF Hashes(l) > 0 /\ Hashes(l) < Len(l) /\ l[Hashes(l) + 1] = " "
                        THEN SubSeq(l, Hashes(l) + 2, Len(l))
                        ELSE l
    IN  NoHeading(NoItem(line))

\* the text of a Markdown string: the markers of emphasis, code, deletion
\* and insertion, of list items and of headings taken away
StripTokens(md) ==
    LET NoMark(c) == c \notin {"*", "_", "~", Backtick}
        lines == SplitLines(md)
    IN  JoinWith([k \in 1..Len(lines) |-> SelectSeq(StripPrefix(lines[k]), NoMark)],
                 <<"\n">>)

\* the elements of plain prose: headings, paragraphs and list items
ProseBlocks == {"H1", "H2", "H3", "H4", "H5", "H6", "P", "LI"}

\* the subtree of r holds plain prose only: headings, paragraphs and list
\* items (the latter in lists) that hold text and inline elements only
PlainProse(d, r) ==
    /\ \E k \in Descendants(d, r) : d[k].kind = "text"
    /\ \A k \in Descendants(d, r) :
          LET up == d[d[k].parent].tag
          IN  CASE d[k].kind = "text" -> up \in ProseBlocks \cup inlineElements
                [] d[k].tag \in inlineElements -> up \in ProseBlocks \cup inlineElements
                [] d[k].tag \in ProseBlocks \ {"LI"} -> d[k].parent = r
                [] d[k].tag = "LI" -> up \in {"UL", "OL"}
                [] d[k].tag \in {"UL", "OL"} -> d[k].parent = r
                [] OTHER -> FALSE

\* the table a row belongs to: its nearest TABLE ancestor
RECURSIVE TableOf(_, _)
TableOf(d, j) ==
    IF d[j].parent = 0 THEN 0
    ELSE IF d[d[j].parent].tag = "TABLE" THEN d[j].parent
    ELSE TableOf(d, d[j].parent)

\* the number of rows of table t
RowCount(d, t) == Cardinality({j \in Descendants(d, t) : d[j].tag = "TR" /\ TableOf(d, j) = t})

\* a line of a pipe-delimited table: | ... |
IsPipeLine(line) ==
    LET l == Trim(line) IN Len(l) >= 2 /\ l[1] = "|" /\ l[Len(l)] = "|"

\* C1: whenever findMainContent has been called, it has returned an element
\* (never null): mainContent is set
C1_ReturnsElement == Located => mainContent # Null

\* C2: no step of readPageFromTab changes the live document, and
\* removeChild acts on contentContainer and on a tempContainer only
C2_LiveTreeUnchanged ==
    [][trees'.live = trees.live /\ removed' \subseteq {"copy", "temp"}]_vars

\* C2, the case: elements were removed from contentContainer and from a
\* tempContainer while the serialized element is one of the live document
C2_Witness ==
    /\ pc = "done" /\ result.defined
    /\ removed = {"copy", "temp"}
    /\ target.tree = "live"
    /\ Len(trees.copy) < Len(trees.live)

\* C3: the step that runs findMainContent raises no exception
C3_LocatorNeverThrows == [][pc = "locate" => ~thrown']_vars

\* the calls a step of the walk pushed are calls on proper descendants of
\* the element of the call it entered (or that call's own continuation)
Descends ==
    pc = "convert" /\ calls # <<>> /\ pc' = "convert" /\ ~Head(calls).after =>
        \A k \in 1..(Len(calls') - Len(calls) + 1) :
            \/ IsAncestor(TargetTree, Head(calls).el, calls'[k].el)
            \/ calls'[k] = AfterInline(Head(calls).el)

\* the phases a call has still to go through
PhaseRank ==
    CASE pc = "start" -> 6
      [] pc = "inject" -> 5
      [] pc = "strip" -> 4
      [] pc = "locate" -> 3
      [] pc = "convert" -> 2
      [] pc = "returned" -> 1
      [] pc = "done" -> 0

\* per depth of the target's tree, the calls of the walk still to be
\* entered (counted twice) or to be resumed (counted once)
WalkWeights ==
    IF target = Null THEN <<>>
    ELSE [k \in 1..Len(TargetTree) |->
            2 * Cardinality({i \in 1..Len(calls) :
                    ~calls[i].after /\ Depth(TargetTree, calls[i].el) = k - 1})
            + Cardinality({i \in 1..Len(calls) :
                    calls[i].after /\ Depth(TargetTree, calls[i].el) = k - 1})]

\* the work a call has left: its phases, the nodes of the copy the strip
\* loop can still remove, the calls of the walk by depth
Variant == <<PhaseRank, Len(trees.copy)>> \o WalkWeights

\* a comes before b in the lexicographic order
LexLess(a, b) ==
    \E i \in 1..Len(b) :
        /\ \A j \in 1..(i - 1) : j <= Len(a) /\ a[j] = b[j]
        /\ i > Len(a) \/ a[i] < b[i]

\* a call that has not settled has a step to take: the locator and the walk
\* are guarded by the phase alone
CanStep ==
    \/ pc \in {"locate", "convert"}
    \/ ENABLED <<QueryTabs \/ ExecuteScriptFails \/ CloneBody \/ StripStep
                 \/ StripDone \/ ReturnResults>>_vars

\* C4: every call of readPageFromTab ends: a call that has not settled is
\* never left without a step, every step of the strip loop, of the scoring
\* and of the walk of convertToMarkdown uses up work that is finite, and the
\* walk only descends
C4_Terminates ==
    /\ [](pc = "done" \/ CanStep)
    /\ [][LexLess(Variant', Variant) /\ Descends]_vars

\* C4, the case: a call that stripped elements, scored candidates and
\* walked more than the target element has ended
C4_Witness ==
    /\ pc = "done" /\ result.defined
    /\ "copy" \in removed
    /\ target # Ref("copy", 1)
    /\ Len(TargetTree) > target.idx

\* the injected function of a call ran to its end
Ran(r) == r.thrown \/ r.result.defined

C6_FailureRejects ==
    pc = "done" =>
        /\ outcome \in {"rejected", "resolved"}
        /\ tabs.isNull \/ tabs.list = <<>> \/ tabs.list[1].id = 0
              => outcome = "rejected"
        /\ results = <<>> \/ ~results[1].defined => outcome = "rejected"
        /\ outcome = "resolved" => results = <<result>> /\ result.defined

\* C6, the case: executeScript resolved with an entry without a result
C6_Witness ==
    /\ pc = "done" /\ outcome = "rejected"
    /\ tabs.list # <<>> /\ tabs.list[1].id # 0
    /\ results = <<NoResult>>
    /\ result.defined

\* C7: content has no newline and no carriage return, no two white space
\* characters in a row, no white space at its ends, and is the text of the
\* element the markdown is serialized from
C7_ContentClean ==
    Extracted =>
        /\ \A i \in 1..Len(result.content) : result.content[i] \notin {"\n", "\r"}
        /\ \A i \in 1..(Len(result.content) - 1) :
              ~(result.content[i] \in WhiteSpace /\ result.content[i + 1] \in WhiteSpace)
        /\ result.content # <<>> =>
              /\ result.content[1] \notin WhiteSpace
              /\ result.content[Len(result.content)] \notin WhiteSpace
        /\ NonWs(result.content) = NonWs(TextContent(TargetTree, target.idx))
        /\ result.markdown = PostProcess(convertToMarkdown(TargetTree, target.idx, FALSE))

\* C7, the case: the text of the target has newlines, tabs and runs of
\* white space, within it and at its ends
C7_Witness ==
    /\ Extracted
    /\ result.content # <<>>
    /\ \E i \in 1..(Len(TextContent(TargetTree, target.idx)) - 1) :
          /\ TextContent(TargetTree, target.idx)[i] = "\n"
          /\ TextContent(TargetTree, target.idx)[i + 1] = "\n"
    /\ TextContent(TargetTree, target.idx)[1] = " "

\* C8: the markdown of plain prose, its Markdown tokens taken away, has the
\* characters of the text of the subtree, and has white space wherever that
\* text has it between two words
C8_ProseKeepsWords ==
    Extracted /\ PlainProse(TargetTree, target.idx) =>
        /\ NonWs(StripTokens(result.markdown)) = NonWs(result.content)
        /\ Boundaries(result.content) \subseteq Boundaries(StripTokens(result.markdown))

\* C9: for every h1..h6 of the serialized subtree the markdown has a line
\* made of as many '#' as its level, a space and the text of the heading
C9_HeadingLines ==
    Extracted =>
        \A h \in Descendants(TargetTree, target.idx) :
            \A n \in 1..6 :
                TargetTree[h].tag = HeadingTags[n] =>
                    \E k \in 1..Len(MarkdownLines) :
                        /\ StartsWith(MarkdownLines[k], [j \in 1..n |-> "#"] \o <<" ">>)
                        /\ NonWs(StripTokens(MarkdownLines[k]))
                              = NonWs(TextContent(TargetTree, h))

\* C10: when every table of the serialized subtree has at most one row, the
\* markdown has no line of a pipe-delimited table
C10_SingleRowNoPipes ==
    /\ Extracted
    /\ \E t \in Descendants(TargetTree, target.idx) : TargetTree[t].tag = "TABLE"
    /\ \A t \in Descendants(TargetTree, target.idx) :
          TargetTree[t].tag = "TABLE" => RowCount(TargetTree, t) <= 1
    => \A k \in 1..Len(MarkdownLines) : ~IsPipeLine(MarkdownLines[k])

\* the IMG elements of the subtree convertToMarkdown is called on
TargetImages ==
    {e \in {target.idx} \cup Descendants(TargetTree, target.idx) :
        TargetTree[e].tag = "IMG"}

\* the src of an IMG element starts with 'data:image'
IsDataImage(n) ==
    LET src == GetAttr(n, "src")
    IN  Len(src) >= 10
        /\ SubSeq(src, 1, 10) = <<"d","a","t","a",":","i","m","a","g","e">>

\* C11: an img whose src starts with 'data:image' serializes to the empty
\* string, as a block and inline; any other img serializes to ![alt](src)
C11_ImageRule ==
    Located /\ target # Null =>
        \A e \in TargetImages : \A isInline \in BOOLEAN :
            convertToMarkdown(TargetTree, e, isInline) =
                IF IsDataImage(TargetTree[e]) THEN <<>>
                ELSE <<"!", "[">> \o GetAttr(TargetTree[e], "alt") \o <<"]", "(">>
                     \o GetAttr(TargetTree[e], "src") \o <<")">>

\* C11, the case: a page with a data image and an ordinary image under a
\* heading has been serialized: only the ordinary image is in the markdown
C11_Witness ==
    /\ Extracted
    /\ \E e \in TargetImages : IsDataImage(TargetTree[e])
    /\ \E e \in TargetImages :
          /\ ~IsDataImage(TargetTree[e])
          /\ TargetTree[TargetTree[e].parent].tag = "H2"
    /\ result.markdown =
          <<"#","#"," ","T","!","[","p","i","c","]","(","a",".","p","n","g","?",
            "d","a","t","a",":","i","m","a","g","e",")">>

\* s holds the characters of sub, one after the other
Holds(s, sub) == \E i \in 1..Len(s) : MatchAt(s, sub, i)

\* C12: the markdown of a result holds no three newlines in a row and no two
\* blanks or tabs in a row, has no white space at its ends, and
\* post-processing it again gives the same markdown
C12_MarkdownNormalized ==
    Extracted =>
        /\ ~Holds(result.markdown, <<"\n", "\n", "\n">>)
        /\ \A i \in 1..(Len(result.markdown) - 1) :
              ~(result.markdown[i] \in {" ", "\t"}
                /\ result.markdown[i + 1] \in {" ", "\t"})
        /\ result.markdown # <<>> =>
              /\ result.markdown[1] \notin WhiteSpace
              /\ result.markdown[Len(result.markdown)] \notin WhiteSpace
        /\ PostProcess(result.markdown) = result.markdown

\* C12, the case: a markdown made from a text that starts with a blank and
\* holds a run of blanks and tabs and three newlines with blanks between
C12_Witness ==
    /\ Extracted
    /\ result.markdown = <<"a"," ","b","\n","\n"," ","c">>
    /\ LET raw == convertToMarkdown(TargetTree, target.idx, FALSE)
       IN  /\ raw[1] = " "
           /\ Holds(raw, <<" ", "\t", " ">>)
           /\ Holds(raw, <<"\n", " ", "\n", "\n">>)

\* the tags of elementsToRemove of which contentContainer holds an element:
\* the tags a run of the strip loop would remove an element of
TagsToStrip ==
    {k \in 1..Len(elementsToRemove) :
        GetElementsByTagName(trees.copy, 1, elementsToRemove[k]) # <<>>}

\* C13: once the strip loop has run, running it again removes nothing:
\* contentContainer holds no element of any tag of elementsToRemove, so
\* every while of a second run ends at once and the tree stays as it is
C13_StripIdempotent == Located => TagsToStrip = {}

\* C13, the case: the strip loop has removed two elements or more, one of
\* them with an element of its own
C13_Witness ==
    /\ Located
    /\ "copy" \in removed
    /\ Len(trees.live) - Len(trees.copy) >= 5

\* the semantic candidates of contentContainer: per query of
\* trySemanticElements that finds an element, its result and its
\* baseConfidence (in the unit of the confidences)
SemanticCandidates ==
    {[result |-> evaluateSemanticCandidate(
                     trees.copy,
                     QuerySelector(trees.copy, 1, SemanticQueries[k][1]),
                     SemanticQueries[k][2])[1],
      base |-> SemanticQueries[k][2] * 2 * ScoreUnit] :
        k \in {j \in 1..Len(SemanticQueries) :
                 QuerySelector(trees.copy, 1, SemanticQueries[j][1]) # 0}}

\* the length of the trimmed text of the element of a result
TrimmedLength(r) == Len(Trim(TextContent(trees[r.element.tree], r.element.idx)))

\* C14: a semantic candidate whose trimmed text is shorter than 100 has
\* 0.7 times its base confidence, which is less; one of 100 or more keeps
\* its base confidence; trySemanticElements returns a short candidate only
\* when no semantic candidate reaches 100
C14_SemanticThreshold ==
    Located =>
        /\ \A c \in SemanticCandidates :
              IF TrimmedLength(c.result) < 100
              THEN /\ c.result.confidence < c.base
                   /\ 10 * c.result.confidence = 7 * c.base
              ELSE c.result.confidence = c.base
        /\ \A r \in {trySemanticElements(trees.copy)} :
              r # <<>> /\ TrimmedLength(r[1]) < 100 =>
                  \A c \in SemanticCandidates : TrimmedLength(c.result) < 100

\* C14, the case: the locator has run on a page with a short semantic
\* candidate and a later one of 100 characters or more, which is returned
C14_Witness ==
    /\ Located
    /\ \E c \in SemanticCandidates : TrimmedLength(c.result) < 100
    /\ trySemanticElements(trees.copy) # <<>>
    /\ TrimmedLength(trySemanticElements(trees.copy)[1]) >= 100
    /\ trees.copy[2].tag = "ARTICLE"

\* the fields of the metadata read by getMetaContent, and the name each
\* is read under
MetaFields == {"description", "keywords", "author", "publishedTime"}

MetaName(field) ==
    CASE field = "description" -> <<"d","e","s","c","r","i","p","t","i","o","n">>
      [] field = "keywords" -> <<"k","e","y","w","o","r","d","s">>
      [] field = "author" -> <<"a","u","t","h","o","r">>
      [] field = "publishedTime" ->
            <<"a","r","t","i","c","l","e",":","p","u","b","l","i","s","h","e",
              "d","_","t","i","m","e">>

\* the nodes of the document, the head's before the body's
DocumentNodes == trees.head \o trees.live

\* the meta tags of a field, by position in the document
MetaTagsOf(field) ==
    {i \in 1..Len(DocumentNodes) :
        /\ DocumentNodes[i].tag = "META"
        /\ \/ <<"name", MetaName(field)>> \in DocumentNodes[i].attrs
           \/ <<"property", MetaName(field)>> \in DocumentNodes[i].attrs}

\* the content attribute of the meta tag of a field (the first of the
\* document), empty when the tag has none
MetaContentOf(field) ==
    LET tag == DocumentNodes[CHOOSE i \in MetaTagsOf(field) :
                                \A j \in MetaTagsOf(field) : i <= j]
    IN  IF \E a \in tag.attrs : a[1] = "content"
        THEN (CHOOSE a \in tag.attrs : a[1] = "content")[2]
        ELSE <<>>

\* C15: a field of the metadata whose meta tag is missing or has an empty
\* content is undefined, and no field is the empty string; keywords, when
\* its tag has a content, is the list of the pieces of the content between
\* commas, each trimmed
C15_MetadataUndefined ==
    Extracted =>
        /\ \A f \in MetaFields :
              /\ MetaTagsOf(f) = {} \/ MetaContentOf(f) = <<>> =>
                    ~result.metadata[f].defined
              /\ MetaTagsOf(f) # {} /\ MetaContentOf(f) # <<>> =>
                    result.metadata[f].defined
        /\ \A f \in MetaFields \ {"keywords"} :
              /\ result.metadata[f].defined =>
                    result.metadata[f].value = MetaContentOf(f)
              /\ result.metadata[f].value # <<>> \/ ~result.metadata[f].defined
        /\ result.metadata.keywords.defined =>
              LET list == result.metadata.keywords.list
                  content == MetaContentOf("keywords")
                  commas == {i \in 1..Len(content) : content[i] = ","}
              IN  /\ Len(list) = Cardinality(commas) + 1
                  /\ \A k \in 1..Len(list) :
                        /\ list[k] = Trim(list[k])
                        /\ \A i \in 1..Len(list[k]) : list[k][i] # ","
                  /\ list = [k \in 1..Len(list) |->
                                Trim(SplitAt(content, {","}, <<>>)[k])]

\* C15, the case: a result read from a page whose description has an empty
\* content and whose keywords are " a, b c ,,d"
C15_Witness ==
    /\ Extracted
    /\ MetaTagsOf("description") # {} /\ MetaContentOf("description") = <<>>
    /\ MetaTagsOf("author") = {}
    /\ ~result.metadata.description.defined
    /\ result.metadata.keywords.defined
    /\ result.metadata.keywords.list = << <<"a">>, <<"b", " ", "c">>, <<>>, <<"d">> >>

\* recognitionResults of the current call, before the sort
CurrentResults == recognitionResults(trees.live, trees.copy, url)

\* the result of the platform rule that fires on the current page, if any
PlatformResults ==
    {trySpecificPlatforms(trees.live, url)[k] :
        k \in 1..Len(trySpecificPlatforms(trees.live, url))}

\* what findMainContent selects from the semantic result and the scored
\* candidates alone
SelectedWithoutPlatform ==
    SelectMainContent(SubSeq(CurrentResults,
                             Len(trySpecificPlatforms(trees.live, url)) + 1,
                             Len(CurrentResults)))

\* C16: when a platform rule fires, findMainContent returns the element of
\* the rule exactly when the text of the element is longer than
\* MIN_CONTENT_LENGTH; when it is not longer, findMainContent returns what
\* it selects from the semantic result and the scored candidates alone
C16_PlatformPriority ==
    Located /\ mainContent # Null =>
        \A p \in PlatformResults :
            /\ mainContent = p.element <=> p.textLength > MIN_CONTENT_LENGTH
            /\ p.textLength <= MIN_CONTENT_LENGTH =>
                   mainContent = SelectedWithoutPlatform

\* C17: when no platform rule fires and trySemanticElements finds an
\* element whose text has 100 characters or more (the first such element
\* in the order main, article, [role="main"], [role="article"],
\* [role="document"]), findMainContent returns that element
C17_SemanticFirst ==
    Located /\ mainContent # Null /\ PlatformResults = {} =>
        \A r \in {trySemanticElements(trees.copy)} :
            r # <<>> /\ r[1].textLength >= MIN_CONTENT_LENGTH =>
                mainContent = r[1].element

\* C18: in the sorted recognitionResults no candidate comes after one that
\* the comparator places behind it: of two candidates whose scores differ
\* by more than 50 the one with the higher score comes first, of two others
\* the one with the longer text
C18_RankingConsistent ==
    Located /\ mainContent # Null =>
        \A sorted \in {SortResults(CurrentResults)} :
            \A i \in 1..Len(sorted) : \A j \in (i + 1)..Len(sorted) :
                Compare(sorted[j], sorted[i]) >= 0

\* the candidates of the sorted list, other than the element of the top
\* candidate, whose text is at least twice as long as the text of the top
\* candidate and whose score is at least 70% of its score
LongerCandidates(sorted) ==
    {k \in 2..Len(sorted) :
        /\ sorted[k].element # sorted[1].element
        /\ sorted[k].textLength >= 2 * sorted[1].textLength
        /\ 10 * sorted[k].score >= 7 * sorted[1].score}

\* C19: when the text of the top candidate is shorter than 300 and there is
\* another candidate at least twice as long with at least 70% of the
\* score, findMainContent returns the element of such a candidate
C19_LengthFallback ==
    Located /\ mainContent # Null =>
        \A sorted \in {SortResults(CurrentResults)} :
            /\ sorted # <<>>
            /\ sorted[1].textLength < 3 * MIN_CONTENT_LENGTH
            /\ LongerCandidates(sorted) # {}
            => \E k \in LongerCandidates(sorted) : mainContent = sorted[k].element

\* C20: findMainContent returns contentContainer or an element whose
\* trimmed text has MIN_CONTENT_LENGTH characters or more
C20_MinimumContent ==
    Located /\ mainContent # Null =>
        \/ mainContent = Ref("copy", 1)
        \/ TrimmedLength([element |-> mainContent]) >= MIN_CONTENT_LENGTH

\* an element whose tag is one of elementsToRemove
Denylisted(n) ==
    n.kind = "elem" /\ \E k \in 1..Len(elementsToRemove) : n.tag = elementsToRemove[k]

\* the nodes of document.body that are no element of elementsToRemove and
\* have no such element above them
KeptNodes ==
    {i \in 1..Len(trees.live) :
        /\ ~Denylisted(trees.live[i])
        /\ \A a \in 1..(i - 1) :
              IsAncestor(trees.live, a, i) => ~Denylisted(trees.live[a])}

\* the position in contentContainer of the kept node i of document.body
\* (0 for the parent of the body)
KeptRank(i) == Cardinality({j \in KeptNodes : j <= i})

\* C21: when the strip loop has ended and findMainContent has not run yet,
\* contentContainer holds no element of elementsToRemove, and it holds
\* every other node of document.body that is not below such an element,
\* in document order and under the same parent
C21_StripPostcondition ==
    pc = "locate" =>
        /\ \A i \in 1..Len(trees.copy) : ~Denylisted(trees.copy[i])
        /\ Len(trees.copy) = Cardinality(KeptNodes)
        /\ \A i \in KeptNodes :
              trees.copy[KeptRank(i)] =
                  [trees.live[i] EXCEPT !.parent = KeptRank(@)]

\* C21, the case: the strip loop has ended after removing an element that
\* holds an element, and nodes are left under the body
C21_Witness ==
    /\ pc = "locate"
    /\ "copy" \in removed
    /\ Len(trees.copy) > 1
    /\ \E i \in 1..Len(trees.live) : \E a \in 1..(i - 1) :
          /\ IsAncestor(trees.live, a, i)
          /\ Denylisted(trees.live[a])
          /\ trees.live[i].kind = "elem"

\* the elements of the subtree that is serialized
TargetElements ==
    {e \in 1..Len(trees[target.tree]) :
        /\ trees[target.tree][e].kind = "elem"
        /\ e = target.idx \/ IsAncestor(trees[target.tree], target.idx, e)}

\* the div elements of the serialized subtree whose data-block-type starts
\* with 'heading' or whose data-type is h1..h6
HeadingContainers ==
    {e \in TargetElements :
        /\ trees[target.tree][e].tag = "DIV"
        /\ IsHeadingElement(trees[target.tree][e])}

\* what follows 'heading' in the data-block-type, or 'h' in the data-type
LevelSuffix(n) ==
    IF HasAttr(n, "data-block-type")
       /\ StartsWith(GetAttr(n, "data-block-type"), S_heading)
    THEN SubSeq(GetAttr(n, "data-block-type"), Len(S_heading) + 1,
                Len(GetAttr(n, "data-block-type")))
    ELSE SubSeq(GetAttr(n, "data-type"), 2, Len(GetAttr(n, "data-type")))

\* a heading of the given level with the given text
HeadingOf(level, text) == [k \in 1..level |-> "#"] \o <<" ">> \o text \o <<"\n", "\n">>

\* C22: a heading container is serialized as a heading of the level its
\* suffix parses to (when that is a number, and not a negative one), and as
\* a heading of level 1, with exactly one '#', when the suffix does not
\* parse as a number
C22_HeadingLevelDefault ==
    Located /\ target # Null =>
        \A e \in HeadingContainers :
        \A d \in {trees[target.tree]} :
        \A parsed \in {parseInt(LevelSuffix(d[e]))} :
            parsed.nan \/ parsed.val >= 0 =>
                convertToMarkdown(d, e, FALSE) =
                    HeadingOf(IF parsed.nan THEN 1 ELSE parsed.val,
                              processInlineContent(d, e))

\* the rows of table t: its tr elements that are in no table below it
OwnRows(d, t) ==
    LET IsRow(j) ==
            /\ d[j].tag = "TR"
            /\ IsAncestor(d, t, j)
            /\ \A a \in (t + 1)..(j - 1) :
                  IsAncestor(d, t, a) /\ IsAncestor(d, a, j) => d[a].tag # "TABLE"
    IN  SelectSeq([j \in 1..Len(d) |-> j], IsRow)

\* the line of a table for row r: its th and td children, in order
RowLine(d, r) ==
    LET IsCell(c) == d[c].tag \in {"TH", "TD"} /\ ~shouldSkipCell(d[c])
        Line(cells) ==
            <<"|", " ">>
            \o JoinWith([k \in 1..Len(cells) |-> processInlineContent(d, cells[k])],
                        <<" ", "|", " ">>)
            \o <<" ", "|", "\n">>
    IN  Line(SelectSeq(ChildNodes(d, r), IsCell))

\* the header-separator row for row r: one '---' per cell
SeparatorLine(d, r) ==
    LET IsCell(c) == d[c].tag \in {"TH", "TD"} /\ ~shouldSkipCell(d[c])
        Line(cells) ==
            <<"|", " ">>
            \o JoinWith([k \in 1..Len(cells) |-> <<"-", "-", "-">>], <<" ", "|", " ">>)
            \o <<" ", "|", "\n">>
    IN  Line(SelectSeq(ChildNodes(d, r), IsCell))

\* C23: a table of two rows or more that is no gutter and code table is
\* serialized as the line of its first row, one header-separator row with
\* one '---' per cell of that row, and one line per other row, in order
C23_TableHasSeparator ==
    Located /\ target # Null =>
        \A d \in {trees[target.tree]} :
        \A t \in {e \in TargetElements : d[e].tag = "TABLE"} :
        \A rows \in {OwnRows(d, t)} :
            Len(rows) >= 2 /\ ~IsCodeTable(d, t) =>
                convertToMarkdown(d, t, FALSE) =
                    RowLine(d, rows[1]) \o SeparatorLine(d, rows[1])
                    \o Flatten([k \in 1..(Len(rows) - 1) |-> RowLine(d, rows[k + 1])])
                    \o <<"\n">>

\* C24: the walk starts with the serialized element in block mode; the
\* output of a call in inline mode holds no line break, and every call it
\* makes is in inline mode
C24_InlineDiscipline ==
    pc = "convert" =>
        \A d \in {trees[target.tree]} :
        \A i \in 1..Len(calls) :
            /\ calls[i].el = target.idx => ~calls[i].isInline
            /\ calls[i].isInline /\ ~calls[i].after =>
                  /\ ~Holds(convertToMarkdown(d, calls[i].el, TRUE), <<"\n">>)
                  /\ \A c \in {Calls(d, calls[i].el, TRUE)} :
                        \A j \in 1..Len(c) : c[j].isInline

\* the children of element e with the given tag, in order
ChildElements(d, e, tags) ==
    LET Is(c) == d[c].kind = "elem" /\ d[c].tag \in tags
    IN  SelectSeq(ChildNodes(d, e), Is)

\* C25: a ul or ol element is serialized as one line per li child, in
\* order, each with the prefix '- ' (ul) or 'N. ' (ol, N counting the li
\* children of that list from 1) and the content of that li, and every li
\* is written once
C25_ListLines ==
    Located /\ target # Null =>
        \A d \in {trees[target.tree]} :
        \A e \in {x \in TargetElements : d[x].tag \in {"UL", "OL"}} :
        \A items \in {ChildElements(d, e, {"LI"})} :
            convertToMarkdown(d, e, FALSE) =
                Flatten([k \in 1..Len(items) |->
                    (IF d[e].tag = "UL" THEN <<"-", " ">>
                     ELSE NumberString(k) \o <<".", " ">>)
                    \o processInlineContent(d, items[k]) \o <<"\n">>])
                \o <<"\n">>

\* the p and div elements of the serialized subtree without a block type
\* whose children are text nodes and inline elements only
PlainParagraphs ==
    {e \in TargetElements :
        /\ trees[target.tree][e].tag \in {"P", "DIV"}
        /\ ~HasAttr(trees[target.tree][e], "data-block-type")
        /\ ~HasAttr(trees[target.tree][e], "data-type")
        /\ \A c \in Descendants(trees[target.tree], e) :
              trees[target.tree][c].parent = e =>
                  \/ trees[target.tree][c].kind = "text"
                  \/ isInlineElement(trees[target.tree][c])}

\* the Markdown token of an inline element
TokenOf(n) ==
    CASE n.tag \in {"STRONG", "B"} -> <<"*", "*">>
      [] n.tag \in {"EM", "I"} -> <<"*">>
      [] n.tag = "CODE" -> <<Backtick>>
      [] n.tag = "DEL" -> <<"~", "~">>
      [] n.tag \in {"INS", "U"} -> <<"_", "_">>
      [] OTHER -> <<>>

\* the children of e in order: a text as it is, an inline element as its
\* content between its tokens
ChildrenInOrder(d, e) ==
    LET kids == ChildNodes(d, e)
    IN  Flatten([k \in 1..Len(kids) |->
            IF d[kids[k]].kind = "text" THEN d[kids[k]].text
            ELSE TokenOf(d[kids[k]]) \o processInlineContent(d, kids[k])
                 \o TokenOf(d[kids[k]])])

\* the article of the example: <article><h1>Title</h1><p>Hello
\* <strong>world</strong>.</p></article>
ExampleArticles ==
    {e \in TargetElements :
        /\ CloneNode(trees[target.tree], e) \in SentenceBlocks
        /\ trees[target.tree][e].tag = "ARTICLE"}

S_Example ==
    <<"#", " ", "T", "i", "t", "l", "e", "\n", "\n", "H", "e", "l", "l", "o",
      " ", "*", "*", "w", "o", "r", "l", "d", "*", "*", ".", "\n">>

C27_TargetInCopy ==
    Located /\ mainContent # Null =>
        /\ mainContent.tree = "copy"
        /\ \A e \in TargetElements : ~Denylisted(trees[target.tree][e])

\* the number of '#' characters a string starts with
RECURSIVE LeadingHashes(_)
LeadingHashes(s) ==
    IF s # <<>> /\ Head(s) = "#" THEN 1 + LeadingHashes(Tail(s)) ELSE 0

\* C28: the serialization of an element of the heading branch (an h1..h6,
\* or a div with a heading data-block-type or data-type, whatever its
\* value) raises no exception and starts with 1 to 6 '#' characters
C28_HeadingLevelRange ==
    Located /\ target # Null =>
        \A d \in {trees[target.tree]} :
        \A e \in {x \in TargetElements : IsHeadingElement(d[x])} :
        \A md \in {convertToMarkdown(d, e, FALSE)} :
            /\ ~Throws(md)
            /\ LeadingHashes(md) \in 1..6

\* the a elements of the serialized subtree that are a child of a p or div
\* without a block type, between a text node before and a text node after
LinksInSentences ==
    {a \in TargetElements :
        /\ trees[target.tree][a].tag = "A"
        /\ \E p \in TargetElements : \E i \in 2..(Len(ChildNodes(trees[target.tree], p)) - 1) :
              /\ trees[target.tree][p].tag \in {"P", "DIV"}
              /\ ~HasAttr(trees[target.tree][p], "data-block-type")
              /\ ~HasAttr(trees[target.tree][p], "data-type")
              /\ ChildNodes(trees[target.tree], p)[i] = a
              /\ trees[target.tree][ChildNodes(trees[target.tree], p)[i - 1]].kind = "text"
              /\ trees[target.tree][ChildNodes(trees[target.tree], p)[i + 1]].kind = "text"}

\* C29: the paragraph of a link between two texts is serialized with the
\* text before the link, the link '[text](href)' and the text after it on
\* one line
C29_LinkInSentence ==
    Located /\ target # Null =>
        \A d \in {trees[target.tree]} :
        \A a \in LinksInSentences :
        \A kids \in {ChildNodes(d, d[a].parent)} :
        \A i \in {k \in 1..Len(kids) : kids[k] = a} :
            Holds(convertToMarkdown(d, d[a].parent, FALSE),
                  d[kids[i - 1]].text \o convertToMarkdown(d, a, FALSE)
                  \o d[kids[i + 1]].text)

\* ---- ChatHistoryService: one action per storage operation of a call ----
\* Every chrome.storage.local get, set and remove is awaited, so a call
\* reaches storage one operation at a time and other callers' operations
\* run between two of them. The title and the timestamps of a session are
\* left out; Date.now() advances between two createSession calls.

\* createSessionSummary: the summary the index keeps of a session
createSessionSummary(session) ==
    [id |-> session.id, messageCount |-> Len(session.messages),
     model |-> session.model]

\* index.sessions.findIndex(s => s.id === sessionId): the first position
\* (from 0) of a summary of sessionId, -1 when there is none
findIndex(sessions, sessionId) ==
    IF \E k \in 1..Len(sessions) : sessions[k].id = sessionId
    THEN (CHOOSE k \in 1..Len(sessions) :
              /\ sessions[k].id = sessionId
              /\ \A j \in 1..(k - 1) : sessions[j].id # sessionId) - 1
    ELSE -1

\* index.sessions.splice(summaryIndex, 1)
splice(sessions, summaryIndex) ==
    [k \in 1..(Len(sessions) - 1) |->
        IF k <= summaryIndex THEN sessions[k] ELSE sessions[k + 1]]

\* the ids a caller passes to updateSession, addMessage and deleteSession:
\* sendMessage passes the id of the session a createSession call returned,
\* the history list the id of a summary it was shown
Returned(sessionId) ==
    /\ sessionId < now
    /\ \A c \in Callers :
          ~(tasks[c].op = "createSession" /\ tasks[c].sessionId = sessionId)

\* createSession up to the end of its first storage operation: the new
\* session is saved under its key
createSession(c, model) ==
    /\ tasks[c].op = "idle"
    /\ now <= MaxSessions
    /\ \E session \in {[id |-> now, messages |-> <<>>, model |-> model]} :
          /\ storage' = [storage EXCEPT !.data[session.id] = session]
          /\ tasks' = [tasks EXCEPT ![c] =
                          [IdleTask EXCEPT !.op = "createSession",
                                           !.pc = "getSessionsIndex",
                                           !.sessionId = session.id,
                                           !.session = session]]
    /\ now' = now + 1
    /\ UNCHANGED pageVars

\* updateSession up to the end of getSession: null for a session that is
\* not stored, else the updated session is ready to be saved
updateSession(c, sessionId, model) ==
    /\ tasks[c].op = "idle"
    /\ Returned(sessionId)
    /\ \E session \in {storage.data[sessionId]} :
          IF session = NoSession
          THEN UNCHANGED tasks
          ELSE tasks' = [tasks EXCEPT ![c] =
                            [IdleTask EXCEPT !.op = "updateSession",
                                             !.pc = "saveSession",
                                             !.sessionId = sessionId,
                                             !.session =
                                                 [session EXCEPT
                                                     !.model = model]]]
    /\ UNCHANGED <<storage, now, pageVars>>

\* addMessage up to the end of getSession: null for a session that is not
\* stored, else the message is pushed on the session that was read
addMessage(c, sessionId, message) ==
    /\ tasks[c].op = "idle"
    /\ Returned(sessionId)
    /\ Len(storage.data[sessionId].messages) < MaxMessages
    /\ \E session \in {storage.data[sessionId]} :
          IF session = NoSession
          THEN UNCHANGED tasks
          ELSE tasks' = [tasks EXCEPT ![c] =
                            [IdleTask EXCEPT !.op = "addMessage",
                                             !.pc = "saveSession",
                                             !.sessionId = sessionId,
                                             !.session =
                                                 [session EXCEPT
                                                     !.messages =
                                                         Append(@, message)]]]
    /\ UNCHANGED <<storage, now, pageVars>>

\* saveSession: the session of the call is set under its key
saveSession(c) ==
    /\ tasks[c].pc = "saveSession"
    /\ storage' = [storage EXCEPT
                      !.data[tasks[c].session.id] = tasks[c].session]
    /\ tasks' = [tasks EXCEPT ![c].pc = "getSessionsIndex"]
    /\ UNCHANGED <<now, pageVars>>

\* deleteSession up to the end of its first storage operation: the session
\* key is removed
deleteSession(c, sessionId) ==
    /\ tasks[c].op = "idle"
    /\ Returned(sessionId)
    /\ storage' = [storage EXCEPT !.data[sessionId] = NoSession]
    /\ tasks' = [tasks EXCEPT ![c] =
                    [IdleTask EXCEPT !.op = "deleteSession",
                                     !.pc = "getSessionsIndex",
                                     !.sessionId = sessionId]]
    /\ UNCHANGED <<now, pageVars>>

\* clearAllSessions up to the end of getSessionsIndex
clearAllSessions(c) ==
    /\ tasks[c].op = "idle"
    /\ tasks' = [tasks EXCEPT ![c] =
                    [IdleTask EXCEPT !.op = "clearAllSessions",
                                     !.pc = "remove",
                                     !.index = storage.index]]
    /\ UNCHANGED <<storage, now, pageVars>>

\* clearAllSessions: the keys of the sessions of the index it read are
\* removed, the removals issued together
removeSessions(c) ==
    /\ tasks[c].pc = "remove"
    /\ storage' = [storage EXCEPT !.data =
                      [id \in SessionIds |->
                          IF findIndex(tasks[c].index, id) > -1
                          THEN NoSession ELSE storage.data[id]]]
    /\ tasks' = [tasks EXCEPT ![c].pc = "saveSessionsIndex",
                              ![c].index = <<>>]
    /\ UNCHANGED <<now, pageVars>>

\* getSessionsIndex and what the call does with the index before its next
\* storage operation: createSession puts its summary first; updateSession
\* and addMessage move the summary of their session first, deleteSession
\* takes it out, and each of the three leaves the index alone when it holds
\* no such summary
getSessionsIndex(c) ==
    /\ tasks[c].pc = "getSessionsIndex"
    /\ \E t \in {tasks[c]} : \E sessions \in {storage.index} :
       \E summaryIndex \in {findIndex(sessions, t.sessionId)} :
          tasks' = [tasks EXCEPT ![c] =
              CASE t.op = "createSession" ->
                       [t EXCEPT !.pc = "saveSessionsIndex",
                                 !.index = <<createSessionSummary(t.session)>>
                                               \o sessions]
                [] t.op \in {"updateSession", "addMessage"} ->
                       IF summaryIndex > -1
                       THEN [t EXCEPT !.pc = "saveSessionsIndex",
                                      !.index =
                                          <<createSessionSummary(t.session)>>
                                              \o splice(sessions, summaryIndex)]
                       ELSE IdleTask
                [] OTHER ->
                       IF summaryIndex > -1
                       THEN [t EXCEPT !.pc = "saveSessionsIndex",
                                      !.index = splice(sessions, summaryIndex)]
                       ELSE IdleTask]
    /\ UNCHANGED <<storage, now, pageVars>>

\* saveSessionsIndex: the index of the call is set, and the call returns
saveSessionsIndex(c) ==
    /\ tasks[c].pc = "saveSessionsIndex"
    /\ storage' = [storage EXCEPT !.index = tasks[c].index]
    /\ tasks' = [tasks EXCEPT ![c] = IdleTask]
    /\ UNCHANGED <<now, pageVars>>

\* the message a caller adds
Messages == {"msg"}

NextSessions ==
    \/ \E c \in Callers : \E model \in Models : createSession(c, model)
    \/ \E c \in Callers : \E sessionId \in SessionIds : \E model \in Models :
          updateSession(c, sessionId, model)
    \/ \E c \in Callers : \E sessionId \in SessionIds :
       \E message \in Messages : addMessage(c, sessionId, message)
    \/ \E c \in Callers : saveSession(c)
    \/ \E c \in Callers : \E sessionId \in SessionIds :
          deleteSession(c, sessionId)
    \/ \E c \in Callers : clearAllSessions(c)
    \/ \E c \in Callers : removeSessions(c)
    \/ \E c \in Callers : getSessionsIndex(c)
    \/ \E c \in Callers : saveSessionsIndex(c)

\* ChatHistoryService on an empty chrome.storage.local, beside an empty page
\* that no call reads
SpecSessions == InitOf(Pages({})) /\ [][NextSessions]_vars

\* no ChatHistoryService call is in flight
NoCallInFlight == \A c \in Callers : tasks[c].op = "idle"

\* the positions of the index that hold a summary of the session
SummariesOf(sessionId) ==
    {k \in 1..Len(storage.index) : storage.index[k].id = sessionId}

\* C30: once every createSession, addMessage, updateSession, deleteSession
\* and clearAllSessions call has returned, however the calls interleaved at
\* their await points, the sessions index holds exactly one summary for
\* each stored session, whose messageCount is the number of messages of the
\* stored session, and no summary for a session that is not stored.
C30_IndexConsistent ==
    NoCallInFlight =>
        \A sessionId \in SessionIds :
            IF storage.data[sessionId] = NoSession
            THEN SummariesOf(sessionId) = {}
            ELSE /\ Cardinality(SummariesOf(sessionId)) = 1
                 /\ \A k \in SummariesOf(sessionId) :
                       storage.index[k].messageCount
                           = Len(storage.data[sessionId].messages)

====
